---- MODULE Spec2Model ----
(***************************************************************************)
(* One-way directory reconciliation: syncDirectories (fs/sync-directories, *)
(* current variant), with searchFilesRecursive and cleanEmptyFolders.      *)
(*                                                                         *)
(* A path is the sequence of its components relative to the tree root, so  *)
(* path.join / path.relative / path.dirname / path.basename are sequence   *)
(* operations.  A tree is a record [files, dirs]: files maps every file    *)
(* path to its size (0 = absent), dirs is the set of existing directories. *)
(***************************************************************************)
EXTENDS Integers, Sequences, FiniteSets, TLC

\* ---------------------------------------------------------------- bounds
MaxSize == 2
MaxRuns == 2

\* ------------------------------------------------------- path universe
Root == <<>>
FileUniverse == { <<"a">>, <<"d", "b">>, <<"d", "e", ".DS_Store">> }
\* d has the two child directories d/e and d/f, the root has d and g.
DirUniverse == { <<"d">>, <<"d", "e">>, <<"d", "f">>, <<"g">> }
\* The directories of the trees syncDirectories is run on.
SyncDirUniverse == { <<"d">>, <<"d", "e">> }
ReaddirOrder ==
    << <<"a">>, <<"d">>, <<"g">>, <<"d", "b">>, <<"d", "e">>, <<"d", "f">>,
       <<"d", "e", ".DS_Store">> >>

HIDDEN_FILES_SET == { ".DS_Store", "Desktop.ini" }

Dirname(p) == SubSeq(p, 1, Len(p) - 1)
Basename(p) == p[Len(p)]
AncestorDirs(p) == { SubSeq(p, 1, k) : k \in 1..(Len(p) - 1) }

IsDirectory(tree, p) == p \in tree.dirs
IsFile(tree, p) == p \in FileUniverse /\ tree.files[p] > 0
existsSync(tree, p) == p = Root \/ IsDirectory(tree, p) \/ IsFile(tree, p)

\* fs.readdir(directory, { withFileTypes: true })
readdir(tree, directory) ==
    SelectSeq(ReaddirOrder,
              LAMBDA p : Dirname(p) = directory
                         /\ (IsDirectory(tree, p) \/ IsFile(tree, p)))

RECURSIVE flat(_)
flat(s) == IF s = <<>> THEN <<>> ELSE Head(s) \o flat(Tail(s))

Range(s) == { s[i] : i \in 1..Len(s) }

\* A path filter option: fn = FALSE is a non-callable value (null); a
\* callable filter rejects exactly the paths in rejects.
NullFilter == [fn |-> FALSE, rejects |-> {}]
FilterChoices == { NullFilter, [fn |-> TRUE, rejects |-> { <<"d", "b">> }] }
applyFilter(filter, p) == p \notin filter.rejects

\* Absolute paths start with the name "/"; BasePath is the absolute path of
\* the directory given to searchFilesRecursive.
BasePath == << "/", "base" >>
isAbsolute(p) == Len(p) > 0 /\ p[1] = "/"

\* path.resolve(base, filePath): an absolute filePath is returned as it is.
resolve(filePath) == IF isAbsolute(filePath) THEN filePath ELSE BasePath \o filePath

RECURSIVE searchFilesRecursiveSkippingRejected(_, _, _)
searchFilesRecursiveSkippingRejected(tree, directory, opts) ==
    LET entries == readdir(tree, directory)
        files == [ i \in 1..Len(entries) |->
                    IF ~IsDirectory(tree, entries[i])
                    THEN << entries[i] >>
                    ELSE IF opts.filter.fn /\ ~applyFilter(opts.filter, entries[i])
                    THEN <<>>
                    ELSE LET nextEntry == searchFilesRecursiveSkippingRejected(
                                 tree, entries[i], opts)
                         IN  IF opts.includeDirectories
                             THEN << entries[i] >> \o nextEntry
                             ELSE nextEntry ]
        allFiles == flat(files)
        filteredFiles == IF opts.filter.fn
                         THEN SelectSeq(allFiles, LAMBDA p : applyFilter(opts.filter, p))
                         ELSE allFiles
    IN  IF opts.fullPath
        THEN [ i \in 1..Len(filteredFiles) |-> resolve(filteredFiles[i]) ]
        ELSE filteredFiles

\* searchFilesRecursive(directory, options, base): the recursive calls get
\* the same options, fullPath included, so with fullPath their results are
\* absolute when the caller filters them.
RECURSIVE searchFilesRecursive(_, _, _)
allFilesOf(tree, directory, opts) ==
    LET entries == readdir(tree, directory)
        files == [ i \in 1..Len(entries) |->
                    IF ~IsDirectory(tree, entries[i])
                    THEN << entries[i] >>
                    ELSE LET nextEntry == searchFilesRecursive(
                                 tree, entries[i], opts)
                         IN  IF opts.includeDirectories
                             THEN << entries[i] >> \o nextEntry
                             ELSE nextEntry ]
    IN  flat(files)

searchFilesRecursive(tree, directory, opts) ==
    LET allFiles == allFilesOf(tree, directory, opts)
        filteredFiles == IF opts.filter.fn
                         THEN SelectSeq(allFiles, LAMBDA p : applyFilter(opts.filter, p))
                         ELSE allFiles
    IN  IF opts.fullPath
        THEN [ i \in 1..Len(filteredFiles) |-> resolve(filteredFiles[i]) ]
        ELSE filteredFiles

\* The arguments allFiles.filter(filter) gives to the filter, over the call
\* for directory and its recursive calls.
RECURSIVE filterArguments(_, _, _)
filterArguments(tree, directory, opts) ==
    (IF opts.filter.fn THEN Range(allFilesOf(tree, directory, opts)) ELSE {})
        \cup UNION { filterArguments(tree, e, opts) :
                        e \in { d \in Range(readdir(tree, directory)) :
                                    IsDirectory(tree, d) } }

\* ------------------------------------------------------------- state
VARIABLES
    input,        \* the input tree
    output,       \* the output tree
    options,      \* merged options of the call
    run,          \* number of the current syncDirectories call
    pc,           \* position of the call: the phase it is awaiting
    settled,      \* state of the promise returned by syncDirectories
    inputFiles,   \* result of searchFilesRecursive(inputDirectory)
    outputFiles,  \* result of searchFilesRecursive(outputDirectory)
    cmp,          \* per input path: state of its filesToCopyPromises task
    copyTask,     \* per path: state of its copyAllFiles task
    rmTask,       \* per path: state of its deleteRemainingFiles task
    dirState,     \* per directory: state of its cleanEmptyFoldersHandler call
    entries,      \* per directory: entries read by its handler call
    rmPending,    \* per directory: entries whose fs.rm is awaited before rmdir
    pruneOptions, \* merged options of the cleanEmptyFolders call
    written,      \* output files written by copyFile in this call
    removed,      \* output files deleted by deleteRemainingFiles in this call
    pruned,       \* files and directories deleted by cleanEmptyFolders
    failure,      \* kind of the first operation that threw ("none" if none did)
    fsFailed,     \* TRUE once any filesystem call has failed (all calls)
    initialTree,  \* the output tree as it was when the call started
    searchOptions,\* merged options of a direct searchFilesRecursive call
    filterCalls,  \* arguments the filter got in a direct searchFilesRecursive call
    variant,      \* which syncDirectories is running: the current one or an older one
    mtime,        \* modification time of each input and output file (older variants)
    selector,     \* the terminal selector interface and the questions asked on it
    stdout,       \* process.stdout: whether it is a terminal (a tty.WriteStream)
    progress      \* local state of logProgress and the reporter's invocations

vars == << input, output, options, run, pc, settled, inputFiles, outputFiles,
           cmp, copyTask, rmTask, dirState, entries, rmPending, pruneOptions,
           written, removed, pruned, failure, fsFailed, initialTree,
           searchOptions, filterCalls, progress, variant, mtime, selector,
           stdout >>

AllDirs == DirUniverse \cup { Root }

TreeOK(tree) ==
    /\ \A f \in FileUniverse : tree.files[f] > 0 => AncestorDirs(f) \subseteq tree.dirs
    /\ \A d \in tree.dirs : AncestorDirs(d) \subseteq tree.dirs

\* Sizes matter only through the equality test of filesAreSame, so input
\* files have size 1 and output files any size in 1..MaxSize; the input tree
\* has no empty directory (searchFilesRecursive does not return directories).
InputTrees ==
    { t \in [files : [FileUniverse -> 0..MaxSize], dirs : SUBSET SyncDirUniverse] :
        /\ TreeOK(t)
        /\ \A d \in t.dirs : \E f \in FileUniverse : t.files[f] > 0 /\ d \in AncestorDirs(f)
        /\ \A f \in FileUniverse : t.files[f] \in {0, 1} }

\* Any output tree, empty directories included.
OutputTrees ==
    { t \in [files : [FileUniverse -> 0..MaxSize], dirs : SUBSET SyncDirUniverse] :
        TreeOK(t) }

\* Any tree cleanEmptyFolders is called on by itself: a directory may have
\* several child directories, whose handler calls run concurrently.
PruneTrees ==
    { t \in [files : [FileUniverse -> 0..MaxSize], dirs : SUBSET DirUniverse] :
        TreeOK(t) }

defaultOptions ==
    [ filterInput |-> NullFilter, filterOutput |-> NullFilter,
      compare |-> "filesAreSame", cleanDirectory |-> TRUE, cleanEmpty |-> TRUE,
      logProgress |-> TRUE ]

OptionChoices ==
    [ filterInput : FilterChoices, filterOutput : FilterChoices,
      compare : { "filesAreSame", "custom" },
      cleanDirectory : BOOLEAN, cleanEmpty : BOOLEAN, logProgress : BOOLEAN ]

NoTasks == [ f \in FileUniverse |-> "none" ]

\* The current syncDirectories never reads a modification time.
NoMtime == [ input |-> [ f \in FileUniverse |-> 0 ], output |-> [ f \in FileUniverse |-> 0 ] ]
NoDirs == [ d \in AllDirs |-> "none" ]
NoEntries == [ d \in AllDirs |-> <<>> ]
NoPending == [ d \in AllDirs |-> {} ]

\* defaultOptions of clean-empty-folders.js
cleanDefaultOptions ==
    [ deleteHiddenFiles |-> TRUE, filter |-> NullFilter, maxDepth |-> 0 ]

\* defaultOptions of search-files-recursive.js
searchDefaultOptions ==
    [ fullPath |-> FALSE, filter |-> NullFilter, includeDirectories |-> FALSE ]

\* throttleRate of logProgress's defaultOptions, in milliseconds
throttleRate == 30

\* Date.now() when the copy phase starts, and how often the clock is seen to
\* advance by more than throttleRate while the copies are in flight.
StartTime == 1000
MaxTicks == 1

\* logProgress before any promise has settled: currentIndex = 0,
\* lastTime = 0; reports lists the invocations of the reporter, now is the
\* current Date.now(), values is the array Promise.all builds from the
\* trackItem promises.
NoProgress ==
    [ currentIndex |-> 0, lastTime |-> 0, now |-> StartTime,
      reports |-> <<>>, values |-> <<>> ]

\* process.stdout of a process started on a terminal: a tty.WriteStream,
\* which has clearLine, cursorTo, rows and columns.
Terminal == [ isTTY |-> TRUE ]

\* ------------------------------------------------- terminal selector
\* createSelectorInterface before any question: the stream is resumed, no
\* "data" listener is attached; questions holds, per question asked, its
\* listEntries length, its pointerPosition, whether its promise has settled
\* and with which index, and how often its resolve function was called;
\* lastWriters are the questions whose page was written to the output by the
\* latest key press.
NoSelector ==
    [ maxPerPage |-> 10, paused |-> FALSE, exited |-> FALSE, keys |-> 0,
      questions |-> <<>>, listeners |-> <<>>, lastWriters |-> {} ]

\* The % operator of JavaScript: the result has the sign of the dividend.
remainder(a, b) == IF a >= 0 THEN a % b ELSE 0 - ((0 - a) % b)

carouselValueWithoutWrap(value, direction, max) ==
    remainder(value + direction, max)

carouselValue(value, direction, max) ==
    remainder(value + direction + max, max)

\* Math.ceil(displayValues.length / maxPerPage)
pageCountOf(length, maxPerPage) == (length + maxPerPage - 1) \div maxPerPage

\* getPage(pageNumber).length: the slice from pageNumber * maxPerPage
pageLength(length, maxPerPage, pageNumber) ==
    LET startIndex == pageNumber * maxPerPage
        endIndex == startIndex + maxPerPage
        sliceEnd == IF endIndex < length THEN endIndex ELSE length
    IN  IF startIndex >= length THEN 0 ELSE sliceEnd - startIndex

min(a, b) == IF a < b THEN a ELSE b

\* movePointer(direction, isVertical) on the pointer of question q
movePointer(q, maxPerPage, direction, isVertical) ==
    LET pageDirection == IF isVertical THEN 0 ELSE direction
        indexDirection == IF isVertical THEN direction ELSE 0
        targetPage == carouselValue(q.page, pageDirection,
                                    pageCountOf(q.length, maxPerPage))
        maxIndex == pageLength(q.length, maxPerPage, targetPage)
        targetIndex == carouselValue(min(q.index, maxIndex - 1), indexDirection, maxIndex)
    IN  [ q EXCEPT !.page = targetPage, !.index = targetIndex ]

\* getCurrentIndex()
getCurrentIndex(q, maxPerPage) == q.page * maxPerPage + q.index

\* resolve(value) of a question's promise: only the first call settles it.
resolveQuestion(q, elementIndex) ==
    [ q EXCEPT !.resolved = TRUE,
               !.answer = IF q.resolved THEN @ ELSE elementIndex,
               !.resolveCalls = @ + 1 ]

\* The keys: w a s d and the arrow keys (ESC [ A..D) move the pointer, Enter
\* (13) answers, Backspace (127) and a lone ESC leave the question.
MoveKeys ==
    { [ name |-> "w", direction |-> 0 - 1, isVertical |-> TRUE ],
      [ name |-> "s", direction |-> 1, isVertical |-> TRUE ],
      [ name |-> "a", direction |-> 0 - 1, isVertical |-> FALSE ],
      [ name |-> "d", direction |-> 1, isVertical |-> FALSE ],
      [ name |-> "up", direction |-> 0 - 1, isVertical |-> TRUE ],
      [ name |-> "down", direction |-> 1, isVertical |-> TRUE ],
      [ name |-> "left", direction |-> 0 - 1, isVertical |-> FALSE ],
      [ name |-> "right", direction |-> 1, isVertical |-> FALSE ] }

OtherKeys ==
    { [ name |-> k, direction |-> 0, isVertical |-> FALSE ] :
        k \in { "enter", "backspace", "escape" } }

\* The "data" listener attached by question number i, run on one key.
onData(s, i, key) ==
    LET q == s.questions[i]
    IN  IF key \in MoveKeys
        THEN [ s EXCEPT !.questions[i] =
                            movePointer(q, s.maxPerPage, key.direction, key.isVertical),
                        !.lastWriters = @ \cup { i } ]
        ELSE IF key.name = "enter"
        THEN [ s EXCEPT !.questions[i] =
                            resolveQuestion(q, getCurrentIndex(q, s.maxPerPage)) ]
        ELSE [ s EXCEPT !.paused = TRUE,
                        !.questions[i] = resolveQuestion(q, 0 - 1) ]

\* input.emit("data", key): every attached listener is called, in the order
\* of attachment.
RECURSIVE emit(_, _, _)
emit(s, listeners, key) ==
    IF listeners = <<>> THEN s
    ELSE emit(onData(s, Head(listeners), key), Tail(listeners), key)

\* searchFilesRecursive(inputDirectory, { filter: filterInput }) and
\* searchFilesRecursive(outputDirectory, { filter: filterOutput })
searchInputOptions == [ searchDefaultOptions EXCEPT !.filter = options.filterInput ]
searchOutputOptions == [ searchDefaultOptions EXCEPT !.filter = options.filterOutput ]

Init ==
    /\ input \in InputTrees
    /\ output \in OutputTrees
    /\ options \in OptionChoices
    /\ run = 1
    /\ pc = "searchInput"
    /\ settled = "pending"
    /\ inputFiles = <<>>
    /\ outputFiles = <<>>
    /\ cmp = NoTasks
    /\ copyTask = NoTasks
    /\ rmTask = NoTasks
    /\ dirState = NoDirs
    /\ entries = NoEntries
    /\ rmPending = NoPending
    /\ pruneOptions = cleanDefaultOptions
    /\ written = {}
    /\ removed = {}
    /\ pruned = {}
    /\ failure = "none"
    /\ fsFailed = FALSE
    /\ initialTree = output
    /\ filterCalls = {}
    /\ variant = "current"
    /\ selector = NoSelector
    /\ stdout = Terminal
    /\ mtime = NoMtime
    /\ searchOptions = searchDefaultOptions
    /\ progress = NoProgress

\* An awaited operation throws: failure keeps the kind of the first one.
Fail(kind) == failure' = IF failure = "none" THEN kind ELSE failure

\* The call rejects: the first failure settles the promise; tasks already
\* started stay in flight.
Reject(kind) ==
    /\ Fail(kind)
    /\ settled' = IF settled = "pending" THEN "rejected" ELSE settled
    /\ pc' = IF settled = "pending" THEN "rejected" ELSE pc

\* const inputFiles = await searchFilesRecursive(inputDirectory, ...)
\* A readdir failure anywhere in the tree rejects the enumeration.
SearchInput ==
    /\ pc = "searchInput" /\ settled = "pending"
    /\ \E readdirFails \in BOOLEAN :
         IF readdirFails
         THEN /\ Reject("enumerate")
              /\ fsFailed' = TRUE
              /\ UNCHANGED inputFiles
         ELSE /\ inputFiles' = searchFilesRecursive(input, Root, searchInputOptions)
              /\ pc' = "searchOutput"
              /\ UNCHANGED << settled, failure, fsFailed >>
    /\ UNCHANGED << stdout, selector, variant, mtime, filterCalls, initialTree, searchOptions, progress, input, output, options, run, outputFiles, cmp, copyTask,
                    rmTask, dirState, entries, rmPending, pruneOptions,
                    written, removed, pruned >>

compareTaskStartAlwaysComparing(outFiles, filePath) == "pending"

\* The synchronous part of one filesToCopyPromises task: a path absent from
\* outputFilesSet resolves at once, otherwise compare() is called.
compareTaskStart(outFiles, filePath) ==
    IF filePath \notin Range(outFiles) THEN "absent" ELSE "pending"

\* SearchOutput with the enumeration failure caught and an empty listing used
SearchOutputSwallowingFailure ==
    /\ pc = "searchOutput" /\ settled = "pending"
    /\ \E readdirFails \in BOOLEAN :
         LET outFiles == IF readdirFails THEN <<>>
                         ELSE searchFilesRecursive(output, Root, searchOutputOptions)
         IN  /\ outputFiles' = outFiles
             /\ cmp' = [ f \in FileUniverse |->
                          IF f \in Range(inputFiles)
                          THEN compareTaskStart(outFiles, f)
                          ELSE "none" ]
             /\ pc' = "comparing"
             /\ fsFailed' = (fsFailed \/ readdirFails)
             /\ IF readdirFails THEN Fail("enumerate") ELSE UNCHANGED failure
             /\ UNCHANGED settled
    /\ UNCHANGED << stdout, selector, variant, mtime, filterCalls, initialTree, searchOptions, progress, input, output, options, run, inputFiles, copyTask,
                    rmTask, dirState, entries, rmPending, pruneOptions,
                    written, removed, pruned >>

\* const outputFiles = await searchFilesRecursive(outputDirectory, ...),
\* followed by inputFiles.map(async (filePath) => ...)
SearchOutput ==
    /\ pc = "searchOutput" /\ settled = "pending"
    /\ \E readdirFails \in BOOLEAN :
         IF readdirFails
         THEN /\ Reject("enumerate")
              /\ fsFailed' = TRUE
              /\ UNCHANGED << outputFiles, cmp >>
         ELSE LET outFiles == searchFilesRecursive(output, Root, searchOutputOptions)
              IN  /\ outputFiles' = outFiles
                  /\ cmp' = [ f \in FileUniverse |->
                               IF f \in Range(inputFiles)
                               THEN compareTaskStart(outFiles, f)
                               ELSE "none" ]
                  /\ pc' = "comparing"
                  /\ UNCHANGED << settled, failure, fsFailed >>
    /\ UNCHANGED << stdout, selector, variant, mtime, filterCalls, initialTree, searchOptions, progress, input, output, options, run, inputFiles, copyTask,
                    rmTask, dirState, entries, rmPending, pruneOptions,
                    written, removed, pruned >>

filesAreSameCatchReturningTrue(filePath, statFails) ==
    IF ~existsSync(output, filePath) THEN FALSE
    ELSE IF statFails \/ ~IsFile(input, filePath) THEN TRUE
    ELSE input.files[filePath] = output.files[filePath]

\* filesAreSame(filePathA, filePathB): the default comparator; a stat that
\* fails (statFails, or filePathA does not exist) is caught.
filesAreSame(filePath, statFails) ==
    IF ~existsSync(output, filePath) THEN FALSE
    ELSE IF statFails \/ ~IsFile(input, filePath) THEN FALSE
    ELSE input.files[filePath] = output.files[filePath]

\* One compare() call settles.  The default comparator may hit a failing
\* stat; a user comparator returns either value or throws; calling a value
\* that is not a function throws a TypeError.
CompareSettle(filePath) ==
    /\ cmp[filePath] = "pending"
    /\ \/ /\ options.compare = "filesAreSame"
          /\ \E statFails \in BOOLEAN :
               /\ cmp' = [cmp EXCEPT ![filePath] =
                            IF filesAreSame(filePath, statFails) THEN "same" ELSE "diff"]
               /\ fsFailed' = (fsFailed \/ statFails)
          /\ UNCHANGED << settled, failure, pc >>
       \/ /\ options.compare = "custom"
          /\ \E result \in { "same", "diff" } :
               cmp' = [cmp EXCEPT ![filePath] = result]
          /\ UNCHANGED << settled, failure, pc, fsFailed >>
       \/ /\ options.compare \in { "custom", "notCallable" }
          /\ cmp' = [cmp EXCEPT ![filePath] = "threw"]
          /\ Reject("compare")
          /\ UNCHANGED fsFailed
    /\ UNCHANGED << stdout, selector, variant, mtime, filterCalls, initialTree, searchOptions, progress, input, output, options, run, inputFiles, outputFiles,
                    copyTask, rmTask, dirState, entries, rmPending,
                    pruneOptions, written, removed, pruned >>

copyTaskStartWithoutMkdir(filePath) == "copyFile"

\* The synchronous part of one copyAllFiles task: mkdir is awaited only when
\* the destination directory does not exist.
copyTaskStart(filePath) ==
    IF ~existsSync(output, Dirname(filePath)) THEN "mkdir" ELSE "copyFile"

needsCopyIgnoringCompare(state) == state = "absent"

needsCopy(state) == state \in { "absent", "diff" }

\* filesToCopy = (await Promise.all(filesToCopyPromises)).filter(Boolean),
\* then copyAllFiles(doLogProgress)(filesToCopy) when it is not empty.
AwaitCompare ==
    /\ pc = "comparing" /\ settled = "pending"
    /\ \A f \in FileUniverse : cmp[f] \notin { "pending", "threw" }
    /\ LET filesToCopy == { f \in FileUniverse : needsCopy(cmp[f]) }
       IN  IF filesToCopy # {}
           THEN /\ copyTask' = [ f \in FileUniverse |->
                                  IF f \in filesToCopy THEN copyTaskStart(f) ELSE "none" ]
                /\ pc' = "copying"
           ELSE /\ pc' = "copied"
                /\ UNCHANGED copyTask
    /\ UNCHANGED << stdout, selector, variant, mtime, filterCalls, initialTree, searchOptions, progress, input, output, options, run, settled, inputFiles,
                    outputFiles, cmp, rmTask, dirState, entries, rmPending,
                    pruneOptions, written, removed, pruned, failure, fsFailed >>

\* itemsLength: the number of promises given to logProgress
itemsLength == Cardinality({ f \in FileUniverse : copyTask[f] # "none" })

\* The position of filePath's promise in the array given to logProgress:
\* filesToCopy is in the order of inputFiles.
promiseIndex(filePath) ==
    Cardinality({ i \in DOMAIN inputFiles :
                    /\ copyTask[inputFiles[i]] # "none"
                    /\ \E j \in DOMAIN inputFiles : inputFiles[j] = filePath /\ i <= j })

storeValueInCompletionOrder(values, index, result) ==
    LET array == IF values = <<>> THEN [ i \in 1..itemsLength |-> "pending" ] ELSE values
        free == CHOOSE i \in DOMAIN array :
                    array[i] = "pending" /\ \A j \in 1..(i - 1) : array[j] # "pending"
    IN  [ array EXCEPT ![free] = result ]

\* Promise.all(resolvedPromises): the value of each promise is stored at the
\* index of the promise, the array has one slot per promise.
storeValue(values, index, result) ==
    LET array == IF values = <<>> THEN [ i \in 1..itemsLength |-> "pending" ] ELSE values
    IN  [ array EXCEPT ![index] = result ]

\* One invocation of the reporter, updateTerminal(result, currentIndex,
\* itemsLength): result is the copy task's value, path.basename(input).
reportOf(p, filePath, currentIndex) ==
    [ label |-> Basename(filePath), completedCount |-> currentIndex,
      totalCount |-> itemsLength, at |-> p.now ]

trackItemReportingBeforeCount(p, filePath) ==
    LET currentIndex == p.currentIndex + 1
        isFinal == currentIndex = itemsLength
        report == isFinal \/ p.now - p.lastTime > throttleRate
    IN  [ p EXCEPT !.currentIndex = currentIndex,
                   !.reports = IF report
                               THEN Append(@, reportOf(p, filePath, p.currentIndex))
                               ELSE @,
                   !.lastTime = IF report THEN p.now ELSE @,
                   !.values = storeValue(@, promiseIndex(filePath), Basename(filePath)) ]

trackItemWithoutFinal(p, filePath) ==
    LET currentIndex == p.currentIndex + 1
        report == p.now - p.lastTime > throttleRate
    IN  [ p EXCEPT !.currentIndex = currentIndex,
                   !.reports = IF report
                               THEN Append(@, reportOf(p, filePath, currentIndex))
                               ELSE @,
                   !.lastTime = IF report THEN p.now ELSE @,
                   !.values = storeValue(@, promiseIndex(filePath), Basename(filePath)) ]

\* trackItem(promise) after its await: count the item and call the reporter
\* (updateTerminal -> generate) for the final item or when more than
\* throttleRate ms have passed since the last report.
trackItem(p, filePath) ==
    LET currentIndex == p.currentIndex + 1
        isFinal == currentIndex = itemsLength
        report == isFinal \/ p.now - p.lastTime > throttleRate
    IN  [ p EXCEPT !.currentIndex = currentIndex,
                   !.reports = IF report
                               THEN Append(@, reportOf(p, filePath, currentIndex))
                               ELSE @,
                   !.lastTime = IF report THEN p.now ELSE @,
                   !.values = storeValue(@, promiseIndex(filePath), Basename(filePath)) ]

\* await fs.mkdir(outputDirname, { recursive: true })
CopyMkdir(filePath) ==
    /\ copyTask[filePath] = "mkdir"
    /\ \E mkdirFails \in BOOLEAN :
         IF mkdirFails
         THEN /\ copyTask' = [copyTask EXCEPT ![filePath] = "failed"]
              /\ Reject("copy")
              /\ fsFailed' = TRUE
              /\ UNCHANGED output
         ELSE /\ output' = [output EXCEPT !.dirs = @ \cup AncestorDirs(filePath)]
              /\ copyTask' = [copyTask EXCEPT ![filePath] = "copyFile"]
              /\ UNCHANGED << settled, failure, pc, fsFailed >>
    /\ UNCHANGED << stdout, selector, variant, mtime, filterCalls, initialTree, searchOptions, progress, input, options, run, inputFiles, outputFiles, cmp, rmTask,
                    dirState, entries, rmPending, pruneOptions, written,
                    removed, pruned >>

CopyFileSwappingPaths(filePath) ==
    /\ copyTask[filePath] = "copyFile"
    /\ \E copyFails \in BOOLEAN :
         IF copyFails \/ ~IsFile(output, filePath)
         THEN /\ copyTask' = [copyTask EXCEPT ![filePath] = "failed"]
              /\ Reject("copy")
              /\ fsFailed' = TRUE
              /\ UNCHANGED << input, written, progress >>
         ELSE /\ input' = [input EXCEPT !.files[filePath] = output.files[filePath]]
              /\ written' = written \cup { filePath }
              /\ copyTask' = [copyTask EXCEPT ![filePath] = "done"]
              /\ progress' = IF options.logProgress
                             THEN trackItem(progress, filePath)
                             ELSE progress
              /\ UNCHANGED << settled, failure, pc, fsFailed >>
    /\ UNCHANGED << stdout, selector, variant, mtime, filterCalls, initialTree, searchOptions, output, options, run, inputFiles, outputFiles, cmp, rmTask,
                    dirState, entries, rmPending, pruneOptions, removed, pruned >>

\* await fs.copyFile(input, output); return path.basename(input). The
\* trackItem continuation awaiting this promise runs in the same turn of the
\* event loop, before any other completion is handled.
CopyFile(filePath) ==
    /\ copyTask[filePath] = "copyFile"
    /\ \E copyFails \in BOOLEAN :
         IF copyFails \/ ~IsFile(input, filePath)
                      \/ ~existsSync(output, Dirname(filePath))
         THEN /\ copyTask' = [copyTask EXCEPT ![filePath] = "failed"]
              /\ Reject("copy")
              /\ fsFailed' = TRUE
              /\ UNCHANGED << output, written, progress >>
         ELSE /\ output' = [output EXCEPT !.files[filePath] = input.files[filePath]]
              /\ written' = written \cup { filePath }
              /\ copyTask' = [copyTask EXCEPT ![filePath] = "done"]
              /\ progress' = IF options.logProgress
                             THEN trackItem(progress, filePath)
                             ELSE progress
              /\ UNCHANGED << settled, failure, pc, fsFailed >>
    /\ UNCHANGED << stdout, selector, variant, mtime, filterCalls, initialTree, searchOptions, input, options, run, inputFiles, outputFiles, cmp, rmTask,
                    dirState, entries, rmPending, pruneOptions, removed, pruned >>

\* Time passes while copies are in flight, also after the call has
\* rejected: Date.now() moves on by more than throttleRate.
Tick ==
    /\ options.logProgress
    /\ \E f \in FileUniverse : copyTask[f] \in { "mkdir", "copyFile" }
    /\ progress.now < StartTime + MaxTicks * (throttleRate + 1)
    /\ progress' = [progress EXCEPT !.now = @ + throttleRate + 1]
    /\ UNCHANGED << stdout, selector, variant, mtime, filterCalls, initialTree, searchOptions, input, output, options, run,
                    pc, settled, inputFiles, outputFiles, cmp, copyTask,
                    rmTask, dirState, entries, rmPending, pruneOptions,
                    written, removed, pruned, failure, fsFailed >>

AwaitCopyNotAwaiting ==
    /\ pc = "copying" /\ settled = "pending"
    /\ pc' = "copied"
    /\ UNCHANGED << stdout, selector, variant, mtime, filterCalls, initialTree, searchOptions, progress, input, output, options, run, settled, inputFiles,
                    outputFiles, cmp, copyTask, rmTask, dirState, entries,
                    rmPending, pruneOptions, written, removed, pruned,
                    failure, fsFailed >>

\* await copyAllFiles(...)(filesToCopy) returns: Promise.all of the copy
\* promises, or logProgress (Promise.all of the trackItem promises).
\* The counters of logProgress (currentIndex, lastTime) and the record of
\* its reports end with the call.
AwaitCopy ==
    /\ pc = "copying" /\ settled = "pending"
    /\ \A f \in FileUniverse : copyTask[f] \in { "none", "done" }
    /\ pc' = "copied"
    /\ progress' = NoProgress
    /\ UNCHANGED << stdout, selector, variant, mtime, filterCalls, initialTree, searchOptions, input, output, options, run, settled, inputFiles,
                    outputFiles, cmp, copyTask, rmTask, dirState, entries,
                    rmPending, pruneOptions, written, removed, pruned,
                    failure, fsFailed >>

rmTaskStartUnprotected(filePath) == "rm"

rmTaskStartInverted(filePath) ==
    IF filePath \in Range(inputFiles) THEN "rm" ELSE "none"

\* The synchronous part of one deleteRemainingFiles task
rmTaskStart(filePath) ==
    IF filePath \in Range(inputFiles) THEN "none" ELSE "rm"

CleanDirectoryIgnoringOption ==
    /\ pc = "copied" /\ settled = "pending"
    /\ rmTask' = [ f \in FileUniverse |->
                     IF f \in Range(outputFiles) THEN rmTaskStart(f) ELSE "none" ]
    /\ pc' = "cleaning"
    /\ UNCHANGED << stdout, selector, variant, mtime, filterCalls, initialTree, searchOptions, progress, input, output, options, run, settled, inputFiles,
                    outputFiles, cmp, copyTask, dirState, entries, rmPending,
                    pruneOptions, written, removed, pruned, failure, fsFailed >>

\* if (cleanDirectory) await deleteRemainingFiles(inputFilesSet, ...)(outputFiles)
CleanDirectory ==
    /\ pc = "copied" /\ settled = "pending"
    /\ IF options.cleanDirectory
       THEN /\ rmTask' = [ f \in FileUniverse |->
                            IF f \in Range(outputFiles) THEN rmTaskStart(f) ELSE "none" ]
            /\ pc' = "cleaning"
       ELSE /\ pc' = "cleaned"
            /\ UNCHANGED rmTask
    /\ UNCHANGED << stdout, selector, variant, mtime, filterCalls, initialTree, searchOptions, progress, input, output, options, run, settled, inputFiles,
                    outputFiles, cmp, copyTask, dirState, entries, rmPending,
                    pruneOptions, written, removed, pruned, failure, fsFailed >>

\* await fs.rm(fullPath); removedFiles++
RmFile(filePath) ==
    /\ rmTask[filePath] = "rm"
    /\ \E rmFails \in BOOLEAN :
         IF rmFails \/ ~IsFile(output, filePath)
         THEN /\ rmTask' = [rmTask EXCEPT ![filePath] = "failed"]
              /\ Reject("delete")
              /\ fsFailed' = TRUE
              /\ UNCHANGED << output, removed >>
         ELSE /\ output' = [output EXCEPT !.files[filePath] = 0]
              /\ removed' = removed \cup { filePath }
              /\ rmTask' = [rmTask EXCEPT ![filePath] = "done"]
              /\ UNCHANGED << settled, failure, pc, fsFailed >>
    /\ UNCHANGED << stdout, selector, variant, mtime, filterCalls, initialTree, searchOptions, progress, input, options, run, inputFiles, outputFiles, cmp,
                    copyTask, dirState, entries, rmPending, pruneOptions,
                    written, pruned >>

\* await Promise.all(removeFilesPromises) returns
AwaitClean ==
    /\ pc = "cleaning" /\ settled = "pending"
    /\ \A f \in FileUniverse : rmTask[f] \in { "none", "done" }
    /\ pc' = "cleaned"
    /\ UNCHANGED << stdout, selector, variant, mtime, filterCalls, initialTree, searchOptions, progress, input, output, options, run, settled, inputFiles,
                    outputFiles, cmp, copyTask, rmTask, dirState, entries,
                    rmPending, pruneOptions, written, removed, pruned,
                    failure, fsFailed >>

\* relativeOutputFilter: filterOutput applied to the path relative to the
\* output directory, or null when filterOutput is not a function.
relativeOutputFilter ==
    IF options.filterOutput.fn THEN options.filterOutput ELSE NullFilter

handlerStartFilteringLeavesOnly(opts, directory) ==
    LET depth == Len(directory)
        isIncluded == IF opts.filter.fn THEN applyFilter(opts.filter, directory) ELSE TRUE
        isLeaf == \A c \in output.dirs : Dirname(c) # directory
    IN  IF opts.maxDepth > 0 /\ depth > opts.maxDepth THEN "skipped"
        ELSE IF depth > 0 /\ ~isIncluded /\ isLeaf THEN "skipped"
        ELSE "readdir"

handlerStartIgnoringFilter(opts, directory) ==
    IF opts.maxDepth > 0 /\ Len(directory) > opts.maxDepth THEN "skipped"
    ELSE "readdir"

handlerStartIgnoringMaxDepth(opts, directory) ==
    LET isIncluded == IF opts.filter.fn THEN applyFilter(opts.filter, directory) ELSE TRUE
    IN  IF Len(directory) > 0 /\ ~isIncluded THEN "skipped" ELSE "readdir"

\* The synchronous part of cleanEmptyFoldersHandler(directory, options, depth),
\* up to the readdir it awaits ("skipped": it returns false before listing);
\* the depth of a directory is the length of its path below the root.
handlerStart(opts, directory) ==
    LET depth == Len(directory)
        isIncluded == IF opts.filter.fn THEN applyFilter(opts.filter, directory) ELSE TRUE
    IN  IF opts.maxDepth > 0 /\ depth > opts.maxDepth THEN "skipped"
        ELSE IF depth > 0 /\ ~isIncluded THEN "skipped"
        ELSE "readdir"

CleanEmptyNeverPruning ==
    /\ pc = "cleaned" /\ settled = "pending"
    /\ pc' = "done"
    /\ settled' = "resolved"
    /\ UNCHANGED << stdout, selector, variant, mtime, filterCalls, initialTree, searchOptions, progress, input, output, options, run, inputFiles, outputFiles, cmp,
                    copyTask, rmTask, entries, rmPending, written, removed,
                    pruned, failure, fsFailed, pruneOptions, dirState >>

\* if (cleanEmpty) await cleanEmptyFolders(outputDirectory, { filter }),
\* else the call is done.
CleanEmpty ==
    /\ pc = "cleaned" /\ settled = "pending"
    /\ IF options.cleanEmpty
       THEN LET opts == [cleanDefaultOptions EXCEPT !.filter = relativeOutputFilter]
            IN  /\ pruneOptions' = opts
                /\ dirState' = [NoDirs EXCEPT ![Root] = handlerStart(opts, Root)]
                /\ pc' = "pruning"
                /\ UNCHANGED settled
       ELSE /\ pc' = "done"
            /\ settled' = "resolved"
            /\ UNCHANGED << pruneOptions, dirState >>
    /\ UNCHANGED << stdout, selector, variant, mtime, filterCalls, initialTree, searchOptions, progress, input, output, options, run, inputFiles, outputFiles, cmp,
                    copyTask, rmTask, entries, rmPending, written, removed,
                    pruned, failure, fsFailed >>

\* const entries = await fs.readdir(directory, ...), then the handler is
\* called on every child directory.
PruneReaddir(directory) ==
    /\ dirState[directory] = "readdir"
    /\ \E readdirFails \in BOOLEAN :
         IF readdirFails \/ ~existsSync(output, directory)
         THEN /\ dirState' = [dirState EXCEPT ![directory] = "readdirFailed"]
              /\ Reject("prune")
              /\ fsFailed' = TRUE
              /\ UNCHANGED entries
         ELSE LET es == readdir(output, directory)
              IN  /\ entries' = [entries EXCEPT ![directory] = es]
                  /\ dirState' = [ d \in AllDirs |->
                        IF d = directory THEN "children"
                        ELSE IF d \in Range(es) /\ IsDirectory(output, d)
                             THEN handlerStart(pruneOptions, d)
                             ELSE dirState[d] ]
                  /\ UNCHANGED << settled, failure, pc, fsFailed >>
    /\ UNCHANGED << stdout, selector, variant, mtime, filterCalls, initialTree, searchOptions, progress, input, output, options, run, inputFiles, outputFiles, cmp,
                    copyTask, rmTask, rmPending, pruneOptions, written,
                    removed, pruned >>

remainingFilesAssumingDeleted(directory) ==
    SelectSeq(entries[directory], LAMBDA e : e \notin AllDirs)

remainingFilesKeepingDeleted(directory) == entries[directory]

\* remainingFiles: the entries that are not child directories reported deleted
remainingFiles(directory) ==
    SelectSeq(entries[directory],
              LAMBDA e : ~(e \in AllDirs /\ dirState[e] = "removed"))

workingFilesAlwaysFiltering(opts, directory) ==
    SelectSeq(remainingFiles(directory),
              LAMBDA e : Basename(e) \notin HIDDEN_FILES_SET)

workingFiles(opts, directory) ==
    IF opts.deleteHiddenFiles
    THEN SelectSeq(remainingFiles(directory),
                   LAMBDA e : Basename(e) \notin HIDDEN_FILES_SET)
    ELSE remainingFiles(directory)

isRetainedIgnoringDepth(opts, directory) ==
    Len(workingFiles(opts, directory)) > 0

\* if (workingFiles.length > 0 || depth === 0) return false
isRetained(opts, directory) ==
    Len(workingFiles(opts, directory)) > 0 \/ Len(directory) = 0

\* After every child call has returned: keep the directory, or issue fs.rm
\* for each remaining entry.
PruneEvaluate(directory) ==
    /\ dirState[directory] = "children"
    /\ \A e \in Range(entries[directory]) :
         e \in AllDirs => dirState[e] \in { "skipped", "retained", "removed" }
    /\ IF isRetained(pruneOptions, directory)
       THEN /\ dirState' = [dirState EXCEPT ![directory] = "retained"]
            /\ UNCHANGED rmPending
       ELSE /\ dirState' = [dirState EXCEPT ![directory] = "rmdir"]
            /\ rmPending' = [rmPending EXCEPT ![directory] = Range(remainingFiles(directory))]
    /\ UNCHANGED << stdout, selector, variant, mtime, filterCalls, initialTree, searchOptions, progress, input, output, options, run, pc, settled, inputFiles,
                    outputFiles, cmp, copyTask, rmTask, entries, pruneOptions,
                    written, removed, pruned, failure, fsFailed >>

\* await fs.rm(fullPath) of one remaining entry
PruneRm(directory, e) ==
    /\ e \in rmPending[directory]
    /\ rmPending' = [rmPending EXCEPT ![directory] = @ \ { e }]
    /\ \E rmFails \in BOOLEAN :
         IF rmFails \/ ~IsFile(output, e)
         THEN /\ dirState' = [dirState EXCEPT ![directory] = "rmFailed"]
              /\ Reject("prune")
              /\ fsFailed' = TRUE
              /\ UNCHANGED << output, pruned >>
         ELSE /\ output' = [output EXCEPT !.files[e] = 0]
              /\ pruned' = pruned \cup { e }
              /\ UNCHANGED << dirState, settled, failure, pc, fsFailed >>
    /\ UNCHANGED << stdout, selector, variant, mtime, filterCalls, initialTree, searchOptions, progress, input, options, run, inputFiles, outputFiles, cmp,
                    copyTask, rmTask, entries, pruneOptions, written, removed >>

\* await fs.rmdir(directory); return true
PruneRmdir(directory) ==
    /\ dirState[directory] = "rmdir"
    /\ rmPending[directory] = {}
    /\ \E rmdirFails \in BOOLEAN :
         IF rmdirFails \/ readdir(output, directory) # <<>>
         THEN /\ dirState' = [dirState EXCEPT ![directory] = "rmdirFailed"]
              /\ Reject("prune")
              /\ fsFailed' = TRUE
              /\ UNCHANGED << output, pruned >>
         ELSE /\ output' = [output EXCEPT !.dirs = @ \ { directory }]
              /\ pruned' = pruned \cup { directory }
              /\ dirState' = [dirState EXCEPT ![directory] = "removed"]
              /\ UNCHANGED << settled, failure, pc, fsFailed >>
    /\ UNCHANGED << stdout, selector, variant, mtime, filterCalls, initialTree, searchOptions, progress, input, options, run, inputFiles, outputFiles, cmp,
                    copyTask, rmTask, entries, rmPending, pruneOptions,
                    written, removed >>

\* await cleanEmptyFolders(...) returns; console.log("Done.")
AwaitPrune ==
    /\ pc = "pruning" /\ settled = "pending"
    /\ dirState[Root] \in { "retained", "removed" }
    /\ pc' = "done"
    /\ settled' = "resolved"
    /\ UNCHANGED << stdout, selector, variant, mtime, filterCalls, initialTree, searchOptions, progress, input, output, options, run, inputFiles, outputFiles, cmp,
                    copyTask, rmTask, dirState, entries, rmPending,
                    pruneOptions, written, removed, pruned, failure, fsFailed >>

\* The caller runs syncDirectories again on the same trees with the same
\* options, after the previous call has resolved.
SyncAgain ==
    /\ pc = "done" /\ settled = "resolved"
    /\ run < MaxRuns
    /\ run' = run + 1
    /\ pc' = "searchInput"
    /\ settled' = "pending"
    /\ inputFiles' = <<>>
    /\ outputFiles' = <<>>
    /\ cmp' = NoTasks
    /\ copyTask' = NoTasks
    /\ rmTask' = NoTasks
    /\ dirState' = NoDirs
    /\ entries' = NoEntries
    /\ rmPending' = NoPending
    /\ pruneOptions' = cleanDefaultOptions
    /\ written' = {}
    /\ removed' = {}
    /\ pruned' = {}
    /\ initialTree' = output
    /\ filterCalls' = {}
    /\ progress' = NoProgress
    /\ UNCHANGED << stdout, selector, variant, mtime, searchOptions, input, output, options, failure, fsFailed >>

\* One call of syncDirectories, from the call to the settlement of its
\* promise and of the tasks it started; the copies complete within
\* throttleRate of each other.
Next ==
    \/ SearchInput
    \/ SearchOutput
    \/ \E f \in FileUniverse : CompareSettle(f)
    \/ AwaitCompare
    \/ \E f \in FileUniverse : CopyMkdir(f)
    \/ \E f \in FileUniverse : CopyFile(f)
    \/ AwaitCopy
    \/ CleanDirectory
    \/ \E f \in FileUniverse : RmFile(f)
    \/ AwaitClean
    \/ CleanEmpty
    \/ \E d \in AllDirs : PruneReaddir(d)
    \/ \E d \in AllDirs : PruneEvaluate(d)
    \/ \E d \in AllDirs : \E e \in FileUniverse : PruneRm(d, e)
    \/ \E d \in AllDirs : PruneRmdir(d)
    \/ AwaitPrune

Spec == Init /\ [][Next]_vars

\* ---------------------------------------------------------------------
\* One call with logProgress on, while the clock advances between the
\* completions of the copies (the filters do not matter to the reporter).
\* ---------------------------------------------------------------------
ProgressOptionChoices ==
    [ filterInput : { NullFilter }, filterOutput : { NullFilter },
      compare : { "filesAreSame", "custom" },
      cleanDirectory : BOOLEAN, cleanEmpty : BOOLEAN, logProgress : { TRUE } ]

InitProgress ==
    /\ input \in InputTrees
    /\ output \in OutputTrees
    /\ options \in ProgressOptionChoices
    /\ run = 1
    /\ pc = "searchInput"
    /\ settled = "pending"
    /\ inputFiles = <<>>
    /\ outputFiles = <<>>
    /\ cmp = NoTasks
    /\ copyTask = NoTasks
    /\ rmTask = NoTasks
    /\ dirState = NoDirs
    /\ entries = NoEntries
    /\ rmPending = NoPending
    /\ pruneOptions = cleanDefaultOptions
    /\ written = {}
    /\ removed = {}
    /\ pruned = {}
    /\ failure = "none"
    /\ fsFailed = FALSE
    /\ initialTree = output
    /\ filterCalls = {}
    /\ variant = "current"
    /\ selector = NoSelector
    /\ stdout = Terminal
    /\ mtime = NoMtime
    /\ searchOptions = searchDefaultOptions
    /\ progress = NoProgress

NextProgress ==
    \/ SearchInput
    \/ SearchOutput
    \/ \E f \in FileUniverse : CompareSettle(f)
    \/ AwaitCompare
    \/ \E f \in FileUniverse : CopyMkdir(f)
    \/ \E f \in FileUniverse : CopyFile(f)
    \/ AwaitCopy
    \/ CleanDirectory
    \/ \E f \in FileUniverse : RmFile(f)
    \/ AwaitClean
    \/ CleanEmpty
    \/ \E d \in AllDirs : PruneReaddir(d)
    \/ \E d \in AllDirs : PruneEvaluate(d)
    \/ \E d \in AllDirs : \E e \in FileUniverse : PruneRm(d, e)
    \/ \E d \in AllDirs : PruneRmdir(d)
    \/ AwaitPrune
    \/ Tick

SpecProgress == InitProgress /\ [][NextProgress]_vars

\* ---------------------------------------------------------------------
\* Calls repeated by the caller on the same trees with the same options.
\* ---------------------------------------------------------------------
NextAgain ==
    \/ SearchInput
    \/ SearchOutput
    \/ \E f \in FileUniverse : CompareSettle(f)
    \/ AwaitCompare
    \/ \E f \in FileUniverse : CopyMkdir(f)
    \/ \E f \in FileUniverse : CopyFile(f)
    \/ AwaitCopy
    \/ CleanDirectory
    \/ \E f \in FileUniverse : RmFile(f)
    \/ AwaitClean
    \/ CleanEmpty
    \/ \E d \in AllDirs : PruneReaddir(d)
    \/ \E d \in AllDirs : PruneEvaluate(d)
    \/ \E d \in AllDirs : \E e \in FileUniverse : PruneRm(d, e)
    \/ \E d \in AllDirs : PruneRmdir(d)
    \/ AwaitPrune
    \/ SyncAgain

SpecAgain == Init /\ [][NextAgain]_vars

\* ---------------------------------------------------------------------
\* cleanEmptyFolders(directory, inputOptions) called on its own, with any
\* options; the tree it works on is output.
\* ---------------------------------------------------------------------
MaxDepthOption == 2

PruneFilterChoices ==
    { NullFilter,
      [fn |-> TRUE, rejects |-> { <<"d">> }],
      [fn |-> TRUE, rejects |-> { <<"d", "e">> }],
      [fn |-> TRUE, rejects |-> { <<"d", "f">> }] }

PruneOptionChoices ==
    [ deleteHiddenFiles : BOOLEAN, filter : PruneFilterChoices,
      maxDepth : 0..MaxDepthOption ]

EmptyTree == [ files |-> [ f \in FileUniverse |-> 0 ], dirs |-> {} ]

InitPrune ==
    /\ input = EmptyTree
    /\ output \in PruneTrees
    /\ options = defaultOptions
    /\ run = 1
    /\ pc = "pruning"
    /\ settled = "pending"
    /\ inputFiles = <<>>
    /\ outputFiles = <<>>
    /\ cmp = NoTasks
    /\ copyTask = NoTasks
    /\ rmTask = NoTasks
    /\ pruneOptions \in PruneOptionChoices
    /\ dirState = [NoDirs EXCEPT ![Root] = handlerStart(pruneOptions, Root)]
    /\ entries = NoEntries
    /\ rmPending = NoPending
    /\ written = {}
    /\ removed = {}
    /\ pruned = {}
    /\ failure = "none"
    /\ fsFailed = FALSE
    /\ initialTree = output
    /\ filterCalls = {}
    /\ variant = "current"
    /\ selector = NoSelector
    /\ stdout = Terminal
    /\ mtime = NoMtime
    /\ searchOptions = searchDefaultOptions
    /\ progress = NoProgress

NextPrune ==
    \/ \E d \in AllDirs : PruneReaddir(d)
    \/ \E d \in AllDirs : PruneEvaluate(d)
    \/ \E d \in AllDirs : \E e \in FileUniverse : PruneRm(d, e)
    \/ \E d \in AllDirs : PruneRmdir(d)
    \/ AwaitPrune

SpecPrune == InitPrune /\ [][NextPrune]_vars

\* ---------------------------------------------------------------------
\* searchFilesRecursive called on its own, on any tree, with any options.

\* A filter that accepts nothing but the relative paths a and d/b: every
\* other string, absolute paths included, is rejected.
OnlyListedFilter ==
    [ fn |-> TRUE,
      rejects |-> (DirUniverse \cup { f \in FileUniverse : f \notin { <<"a">>, <<"d", "b">> } })
                      \cup { BasePath \o p : p \in FileUniverse \cup DirUniverse } ]

SearchFilterChoices ==
    { NullFilter,
      [fn |-> TRUE, rejects |-> { <<"d">> }],
      [fn |-> TRUE, rejects |-> { <<"d", "b">>, <<"d", "e">> }],
      OnlyListedFilter }

SearchOptionChoices ==
    [ fullPath : BOOLEAN, filter : SearchFilterChoices,
      includeDirectories : BOOLEAN ]

InitSearch ==
    /\ input = EmptyTree
    /\ output \in OutputTrees
    /\ options = defaultOptions
    /\ run = 1
    /\ pc = "searching"
    /\ settled = "pending"
    /\ inputFiles = <<>>
    /\ outputFiles = <<>>
    /\ cmp = NoTasks
    /\ copyTask = NoTasks
    /\ rmTask = NoTasks
    /\ pruneOptions = cleanDefaultOptions
    /\ dirState = NoDirs
    /\ entries = NoEntries
    /\ rmPending = NoPending
    /\ written = {}
    /\ removed = {}
    /\ pruned = {}
    /\ failure = "none"
    /\ fsFailed = FALSE
    /\ initialTree = output
    /\ filterCalls = {}
    /\ variant = "current"
    /\ selector = NoSelector
    /\ stdout = Terminal
    /\ mtime = NoMtime
    /\ searchOptions \in SearchOptionChoices
    /\ progress = NoProgress

\* await searchFilesRecursive(directory, inputOptions): the promise resolves
\* with the filtered list, or rejects when a readdir fails.
SearchCall ==
    /\ pc = "searching" /\ settled = "pending"
    /\ \E readdirFails \in BOOLEAN :
         IF readdirFails
         THEN /\ Reject("enumerate")
              /\ fsFailed' = TRUE
              /\ UNCHANGED << outputFiles, filterCalls >>
         ELSE /\ outputFiles' = searchFilesRecursive(output, Root, searchOptions)
              /\ filterCalls' = filterArguments(output, Root, searchOptions)
              /\ pc' = "searched"
              /\ settled' = "resolved"
              /\ UNCHANGED << failure, fsFailed >>
    /\ UNCHANGED << stdout, selector, variant, mtime, initialTree, searchOptions, progress, input, output,
                    options, run, inputFiles, cmp, copyTask, rmTask, dirState,
                    entries, rmPending, pruneOptions, written, removed,
                    pruned >>

NextSearch == SearchCall

SpecSearch == InitSearch /\ [][NextSearch]_vars

\* ---------------------------------------------------------------------
\* The default comparator called on its own for one path of any two trees:
\* either file may be missing.

AnyTrees == OutputTrees

InitCompare ==
    /\ input \in AnyTrees
    /\ output \in OutputTrees
    /\ options = defaultOptions
    /\ run = 1
    /\ pc = "comparing"
    /\ settled = "pending"
    /\ inputFiles = <<>>
    /\ outputFiles = <<>>
    /\ \E f \in FileUniverse : cmp = [NoTasks EXCEPT ![f] = "pending"]
    /\ copyTask = NoTasks
    /\ rmTask = NoTasks
    /\ pruneOptions = cleanDefaultOptions
    /\ dirState = NoDirs
    /\ entries = NoEntries
    /\ rmPending = NoPending
    /\ written = {}
    /\ removed = {}
    /\ pruned = {}
    /\ failure = "none"
    /\ fsFailed = FALSE
    /\ initialTree = output
    /\ filterCalls = {}
    /\ variant = "current"
    /\ selector = NoSelector
    /\ stdout = Terminal
    /\ mtime = NoMtime
    /\ searchOptions = searchDefaultOptions
    /\ progress = NoProgress

NextCompare == \E f \in FileUniverse : CompareSettle(f)

SpecCompare == InitCompare /\ [][NextCompare]_vars

\* ---------------------------------------------------------------------
\* syncDirectories called with a filterOutput that rejects one output file
\* (the marker file d/e/.DS_Store or the file d/b), with filterInput: null
\* and with the default comparator or compare: null.

ProtectFilterChoices ==
    { [fn |-> TRUE, rejects |-> { <<"d", "e", ".DS_Store">> }],
      [fn |-> TRUE, rejects |-> { <<"d", "b">> }] }

ProtectOptionChoices ==
    [ filterInput : { NullFilter }, filterOutput : ProtectFilterChoices,
      compare : { "filesAreSame", "notCallable" },
      cleanDirectory : BOOLEAN, cleanEmpty : BOOLEAN, logProgress : { TRUE } ]

InitProtect ==
    /\ input \in InputTrees
    /\ output \in OutputTrees
    /\ options \in ProtectOptionChoices
    /\ run = 1
    /\ pc = "searchInput"
    /\ settled = "pending"
    /\ inputFiles = <<>>
    /\ outputFiles = <<>>
    /\ cmp = NoTasks
    /\ copyTask = NoTasks
    /\ rmTask = NoTasks
    /\ pruneOptions = cleanDefaultOptions
    /\ dirState = NoDirs
    /\ entries = NoEntries
    /\ rmPending = NoPending
    /\ written = {}
    /\ removed = {}
    /\ pruned = {}
    /\ failure = "none"
    /\ fsFailed = FALSE
    /\ initialTree = output
    /\ filterCalls = {}
    /\ variant = "current"
    /\ selector = NoSelector
    /\ stdout = Terminal
    /\ mtime = NoMtime
    /\ searchOptions = searchDefaultOptions
    /\ progress = NoProgress

SpecProtect == InitProtect /\ [][Next]_vars

\* ---------------------------------------------------------------------
\* The older syncDirectories variants (part_003, sort-by-frequency.js,
\* sync-directories.js) with their pruner cleanEmptyFoldersRecursively.

LegacyVariants == { "part_003", "sort-by-frequency", "sync-directories" }

\* sort-by-frequency.js and sync-directories.js handle the files one after
\* the other in a for loop; part_003 maps them to concurrent tasks.
sequentialVariant == variant \in { "sort-by-frequency", "sync-directories" }

\* Modification times of existing files go from 1 to MaxMtime; a file
\* written by copyFile gets the time of the copy, later than all of them.
MaxMtime == 2
CopyTime == MaxMtime + 1

LegacyMtimes(inTree, outTree) ==
    { m \in [ input : [FileUniverse -> 0..1], output : [FileUniverse -> 0..MaxMtime] ] :
        \A f \in FileUniverse :
            /\ m.input[f] = (IF IsFile(inTree, f) THEN 1 ELSE 0)
            /\ (m.output[f] = 0) <=> ~IsFile(outTree, f) }

\* process.stdout is a terminal, or a pipe or a file (no clearLine). Only
\* part_003 calls a method that a terminal alone has.
LegacyStdouts == { [ isTTY |-> b ] : b \in BOOLEAN }

LegacyOptionChoices ==
    [ filterInput : { NullFilter }, filterOutput : FilterChoices,
      compare : { "default", "custom" },
      cleanDirectory : BOOLEAN, cleanEmpty : BOOLEAN, logProgress : { TRUE } ]

\* fs.stat(filePath): every call builds its own Stats object, whose mtime is
\* a Date object of its own; mtimeMs is a number.
statOf(call, tree, times, filePath) ==
    [ size |-> tree.files[filePath],
      mtime |-> [ object |-> call, ms |-> times[filePath] ],
      mtimeMs |-> times[filePath] ]

\* a === b on two Date objects: true only for one and the same object
strictEqualsObject(a, b) == a.object = b.object

statThrows(filePath, statFails) ==
    statFails \/ ~IsFile(input, filePath) \/ ~IsFile(output, filePath)

\* filesAreSame of part_003
filesAreSameWithMtime(filePath, statFails) ==
    IF ~existsSync(output, filePath) THEN FALSE
    ELSE IF statThrows(filePath, statFails) THEN FALSE
    ELSE LET statsA == statOf("A", input, mtime.input, filePath)
             statsB == statOf("B", output, mtime.output, filePath)
             sizeIsSame == statsA.size = statsB.size
             mTimeIsSame == strictEqualsObject(statsA.mtime, statsB.mtime)
         IN  sizeIsSame /\ mTimeIsSame

\* compareFileStatSize of sync-directories.js
compareFileStatSize(filePath, statFails) ==
    IF statThrows(filePath, statFails) THEN FALSE
    ELSE LET statsA == statOf("A", input, mtime.input, filePath)
             statsB == statOf("B", output, mtime.output, filePath)
             sizeIsSame == statsA.size = statsB.size
             mTimeIsSame == strictEqualsObject(statsA.mtime, statsB.mtime)
         IN  sizeIsSame /\ mTimeIsSame

\* fileStatsAreDifferent of sort-by-frequency.js
fileStatsAreDifferent(filePath, statFails) ==
    IF statThrows(filePath, statFails) THEN TRUE
    ELSE LET statsA == statOf("A", input, mtime.input, filePath)
             statsB == statOf("B", output, mtime.output, filePath)
         IN  statsA.size # statsB.size \/ statsA.mtimeMs # statsB.mtimeMs

\* The value the variant's default comparator returns
legacyDefaultCompare(filePath, statFails) ==
    CASE variant = "part_003" -> filesAreSameWithMtime(filePath, statFails)
      [] variant = "sync-directories" -> compareFileStatSize(filePath, statFails)
      [] OTHER -> fileStatsAreDifferent(filePath, statFails)

\* needsCopy, from existsInOutputPath and the value compare() returned
legacyNeedsCopy(existsInOutputPath, filesAreSameValue) ==
    CASE variant = "part_003" -> ~existsInOutputPath /\ ~filesAreSameValue
      [] variant = "sort-by-frequency" -> ~existsInOutputPath /\ filesAreSameValue
      [] OTHER -> ~existsInOutputPath \/ ~filesAreSameValue

\* inputFiles.filter(filterInput) when filterInput is a function
legacyFiltered(files, filter) ==
    IF filter.fn THEN SelectSeq(files, LAMBDA p : applyFilter(filter, p)) ELSE files

legacyUnused ==
    << input, options, run, dirState, entries, rmPending,
       pruneOptions, initialTree, searchOptions, filterCalls, variant,
       progress, selector, stdout >>

InitLegacy ==
    /\ variant \in LegacyVariants
    /\ selector = NoSelector
    /\ stdout \in (IF variant = "part_003" THEN LegacyStdouts ELSE { Terminal })
    /\ input \in InputTrees
    /\ output \in OutputTrees
    /\ mtime \in LegacyMtimes(input, output)
    /\ options \in LegacyOptionChoices
    /\ run = 1
    /\ pc = "searchInput"
    /\ settled = "pending"
    /\ inputFiles = <<>>
    /\ outputFiles = <<>>
    /\ cmp = NoTasks
    /\ copyTask = NoTasks
    /\ rmTask = NoTasks
    /\ pruneOptions = cleanDefaultOptions
    /\ dirState = NoDirs
    /\ entries = NoEntries
    /\ rmPending = NoPending
    /\ written = {}
    /\ removed = {}
    /\ pruned = {}
    /\ failure = "none"
    /\ fsFailed = FALSE
    /\ initialTree = output
    /\ filterCalls = {}
    /\ searchOptions = searchDefaultOptions
    /\ progress = NoProgress

\* The two searchFilesRecursive calls, the two filters and the start of the
\* loop (or of the map) over filteredInputFiles.
LegacySearch ==
    /\ pc = "searchInput" /\ settled = "pending"
    /\ \E readdirFails \in BOOLEAN :
         IF readdirFails
         THEN /\ Reject("enumerate")
              /\ fsFailed' = TRUE
              /\ UNCHANGED << inputFiles, outputFiles, cmp >>
         ELSE LET filteredInputFiles ==
                      legacyFiltered(searchFilesRecursive(input, Root, searchDefaultOptions),
                                     options.filterInput)
                  filteredOutputFiles ==
                      legacyFiltered(searchFilesRecursive(output, Root, searchDefaultOptions),
                                     options.filterOutput)
              IN  /\ inputFiles' = filteredInputFiles
                  /\ outputFiles' = filteredOutputFiles
                  /\ cmp' = [ f \in FileUniverse |->
                               IF f \in Range(filteredInputFiles) THEN "pending" ELSE "none" ]
                  /\ pc' = "comparing"
                  /\ UNCHANGED << settled, failure, fsFailed >>
    /\ UNCHANGED << output, mtime, copyTask, written, removed, pruned >>
    /\ UNCHANGED << rmTask, legacyUnused >>

\* In the sequential variants the loop is at filePath: every path before it
\* in filteredInputFiles has been handled, its copy included.
isNextInLoop(filePath) ==
    /\ pc = "comparing" /\ settled = "pending"
    /\ \A g \in FileUniverse : copyTask[g] # "copyFile"
    /\ \A i, j \in DOMAIN inputFiles :
           inputFiles[j] = filePath /\ i < j => cmp[inputFiles[i]] # "pending"

\* The copy the loop of a sequential variant makes in the iteration of
\* filePath when needsCopy holds; part_003 collects filesToCopy first.
loopCopy(filePath, value) ==
    IF sequentialVariant /\ legacyNeedsCopy(filePath \in Range(outputFiles), value)
    THEN [copyTask EXCEPT ![filePath] = "copyFile"]
    ELSE copyTask

\* await Promise.resolve(compare(inputPath, outputPath)) settles for one
\* path. In part_003 the map has started the task of every path, so each of
\* them settles, in any order, also after the rejection of Promise.all; in
\* the sequential variants the loop ends at the first comparator that throws.
LegacyCompare(filePath) ==
    /\ cmp[filePath] = "pending"
    /\ sequentialVariant => isNextInLoop(filePath)
    /\ \/ /\ options.compare = "default"
          /\ \E statFails \in BOOLEAN :
               LET value == legacyDefaultCompare(filePath, statFails)
               IN  /\ cmp' = [cmp EXCEPT ![filePath] = IF value THEN "true" ELSE "false"]
                   /\ copyTask' = loopCopy(filePath, value)
                   /\ fsFailed' = (fsFailed \/ statFails)
          /\ UNCHANGED << settled, failure, pc >>
       \/ /\ options.compare = "custom"
          /\ \E value \in BOOLEAN :
               /\ cmp' = [cmp EXCEPT ![filePath] = IF value THEN "true" ELSE "false"]
               /\ copyTask' = loopCopy(filePath, value)
          /\ UNCHANGED << settled, failure, pc, fsFailed >>
       \/ /\ options.compare = "custom"
          /\ cmp' = [cmp EXCEPT ![filePath] = "threw"]
          /\ Reject("compare")
          /\ UNCHANGED << copyTask, fsFailed >>
    /\ UNCHANGED << inputFiles, outputFiles, output, mtime, written, removed, pruned >>
    /\ UNCHANGED << rmTask, legacyUnused >>

\* The first step of a part_003 copy task: fs.mkdir is awaited when
\* existsSync(outputDirname) is false, fs.copyFile otherwise.
legacyCopyTaskStart(filePath) ==
    IF cmp[filePath] \in { "true", "false" }
       /\ legacyNeedsCopy(filePath \in Range(outputFiles), cmp[filePath] = "true")
    THEN IF existsSync(output, Dirname(filePath)) THEN "copyFile" ELSE "mkdir"
    ELSE "none"

\* part_003: await Promise.all(filesToCopyPromises) returns and
\* filesToCopy.map starts every copy task; with nothing to copy the call
\* goes on to the cleaning.
LegacyStartCopies ==
    /\ variant = "part_003"
    /\ pc = "comparing" /\ settled = "pending"
    /\ \A f \in FileUniverse : cmp[f] \in { "none", "true", "false" }
    /\ copyTask' = [ f \in FileUniverse |-> legacyCopyTaskStart(f) ]
    /\ pc' = IF \E f \in FileUniverse : legacyCopyTaskStart(f) # "none"
             THEN "copying" ELSE "copied"
    /\ UNCHANGED << settled, failure, fsFailed, inputFiles, outputFiles, cmp,
                    output, mtime, written, removed, pruned >>
    /\ UNCHANGED << rmTask, legacyUnused >>

\* part_003: await fs.mkdir(outputDirname, { recursive: true }) of one copy
\* task; the tasks of the other paths stay in flight when it fails.
LegacyMkdir(filePath) ==
    /\ copyTask[filePath] = "mkdir"
    /\ \E mkdirFails \in BOOLEAN :
         IF mkdirFails
         THEN /\ copyTask' = [copyTask EXCEPT ![filePath] = "failed"]
              /\ Reject("copy")
              /\ fsFailed' = TRUE
              /\ UNCHANGED output
         ELSE /\ output' = [output EXCEPT !.dirs = @ \cup AncestorDirs(filePath)]
              /\ copyTask' = [copyTask EXCEPT ![filePath] = "copyFile"]
              /\ UNCHANGED << settled, failure, pc, fsFailed >>
    /\ UNCHANGED << inputFiles, outputFiles, cmp, mtime, written, removed, pruned >>
    /\ UNCHANGED << rmTask, legacyUnused >>

\* The reporter of part_003 (logProgressCurry) after a copy: it calls
\* process.stdout.clearLine, which only a terminal has.
legacyLogProgressThrows ==
    variant = "part_003" /\ options.logProgress /\ ~stdout.isTTY

\* The copy of one file. Sequential variants: mkdirSync of a missing
\* destination directory and copyFileSync, in one synchronous stretch; the
\* directory stays when copyFileSync throws. part_003: await fs.copyFile of
\* the task, then the reporter; the task rejects with the file written when
\* the reporter throws.
LegacyCopy(filePath) ==
    /\ copyTask[filePath] = "copyFile"
    /\ LET mkdirNeeded == sequentialVariant /\ ~existsSync(output, Dirname(filePath))
           made == IF mkdirNeeded
                   THEN [output EXCEPT !.dirs = @ \cup AncestorDirs(filePath)]
                   ELSE output
       IN  \E outcome \in { "mkdirFails", "copyFails", "copied" } :
             CASE outcome = "mkdirFails" ->
                    /\ mkdirNeeded
                    /\ copyTask' = [copyTask EXCEPT ![filePath] = "failed"]
                    /\ Reject("copy")
                    /\ fsFailed' = TRUE
                    /\ UNCHANGED << output, mtime, written >>
               [] outcome = "copyFails" ->
                    /\ copyTask' = [copyTask EXCEPT ![filePath] = "failed"]
                    /\ Reject("copy")
                    /\ fsFailed' = TRUE
                    /\ output' = made
                    /\ UNCHANGED << mtime, written >>
               [] OTHER ->
                    /\ existsSync(made, Dirname(filePath))
                    /\ output' = [made EXCEPT !.files[filePath] = input.files[filePath]]
                    /\ mtime' = [mtime EXCEPT !.output[filePath] = CopyTime]
                    /\ written' = written \cup { filePath }
                    /\ IF legacyLogProgressThrows
                       THEN /\ copyTask' = [copyTask EXCEPT ![filePath] = "failed"]
                            /\ Reject("report")
                            /\ UNCHANGED fsFailed
                       ELSE /\ copyTask' = [copyTask EXCEPT ![filePath] = "done"]
                            /\ UNCHANGED << settled, failure, pc, fsFailed >>
    /\ UNCHANGED << inputFiles, outputFiles, cmp, removed, pruned >>
    /\ UNCHANGED << rmTask, legacyUnused >>

\* The loop, or Promise.all(copyFilePromises), is over.
LegacyAwaitCopy ==
    /\ pc = (IF sequentialVariant THEN "comparing" ELSE "copying")
    /\ settled = "pending"
    /\ \A f \in FileUniverse : cmp[f] \in { "none", "true", "false" }
    /\ \A f \in FileUniverse : copyTask[f] \in { "none", "done" }
    /\ pc' = "copied"
    /\ UNCHANGED << settled, failure, fsFailed, inputFiles, outputFiles, cmp,
                    copyTask, output, mtime, written, removed, pruned >>
    /\ UNCHANGED << rmTask, legacyUnused >>

\* The output paths cleanOutputDirectory deletes: those absent from
\* inputFilesSet.
stalePaths == Range(outputFiles) \ Range(inputFiles)

\* if (cleanDirectory) cleanOutputDirectory(...). sync-directories.js and
\* sort-by-frequency.js: a synchronous loop of unlinkSync, a failing deletion
\* is caught and logged. part_003: the loop awaits fs.rm for one stale path
\* after the other, so here it only starts.
LegacyCleanOutputDirectory ==
    /\ pc = "copied" /\ settled = "pending"
    /\ IF options.cleanDirectory /\ sequentialVariant
       THEN \E failing \in SUBSET stalePaths :
              LET deleted == stalePaths \ failing
              IN  /\ output' = [output EXCEPT !.files =
                                   [ f \in FileUniverse |-> IF f \in deleted THEN 0 ELSE @[f] ]]
                  /\ mtime' = [mtime EXCEPT !.output =
                                   [ f \in FileUniverse |-> IF f \in deleted THEN 0 ELSE @[f] ]]
                  /\ removed' = deleted
                  /\ fsFailed' = (fsFailed \/ failing # {})
                  /\ pc' = "cleaned"
                  /\ UNCHANGED rmTask
       ELSE IF options.cleanDirectory /\ stalePaths # {}
       THEN /\ rmTask' = [ f \in FileUniverse |->
                             IF f \in stalePaths THEN "rm" ELSE "none" ]
            /\ pc' = "cleaning"
            /\ UNCHANGED << output, mtime, removed, fsFailed >>
       ELSE /\ pc' = "cleaned"
            /\ UNCHANGED << output, mtime, removed, fsFailed, rmTask >>
    /\ UNCHANGED << settled, failure, inputFiles, outputFiles, cmp, copyTask,
                    written, pruned >>
    /\ UNCHANGED legacyUnused

\* The loop of cleanOutputDirectory is at filePath: every stale path before
\* it in outputFiles has been handled.
isNextToDelete(filePath) ==
    /\ rmTask[filePath] = "rm"
    /\ \A i, j \in DOMAIN outputFiles :
           outputFiles[j] = filePath /\ i < j => rmTask[outputFiles[i]] # "rm"

\* part_003: await fs.rm(outputPath) of one stale path returns; a failure
\* is caught and logged, and the loop goes on. After the last path
\* cleanOutputDirectory returns.
LegacyRm(filePath) ==
    /\ variant = "part_003"
    /\ pc = "cleaning" /\ settled = "pending"
    /\ isNextToDelete(filePath)
    /\ \E rmFails \in BOOLEAN :
         IF rmFails
         THEN /\ rmTask' = [rmTask EXCEPT ![filePath] = "failed"]
              /\ fsFailed' = TRUE
              /\ UNCHANGED << output, mtime, removed >>
         ELSE /\ rmTask' = [rmTask EXCEPT ![filePath] = "done"]
              /\ output' = [output EXCEPT !.files[filePath] = 0]
              /\ mtime' = [mtime EXCEPT !.output[filePath] = 0]
              /\ removed' = removed \cup { filePath }
              /\ UNCHANGED fsFailed
    /\ pc' = IF \E g \in FileUniverse \ { filePath } : rmTask[g] = "rm"
             THEN pc ELSE "cleaned"
    /\ UNCHANGED << settled, failure, inputFiles, outputFiles, cmp, copyTask,
                    written, pruned >>
    /\ UNCHANGED legacyUnused

\* cleanEmptyFoldersRecursively(folder) on a filesystem state
\* st = [tree, removed, ops]: the entries are visited one after the other,
\* the folder is listed again without .DS_Store, and a folder left with
\* nothing else is removed after its .DS_Store; ops lists the fs.rm and
\* fs.rmdir calls in the order in which they are awaited.
RECURSIVE cleanEmptyFoldersRecursively(_, _)
RECURSIVE cleanEachEntry(_, _)
cleanEachEntry(st, files) ==
    IF files = <<>> THEN st
    ELSE cleanEachEntry(cleanEmptyFoldersRecursively(st, Head(files)), Tail(files))

cleanEmptyFoldersRecursively(st, folder) ==
    IF folder # Root /\ ~IsDirectory(st.tree, folder) THEN st
    ELSE LET listed == readdir(st.tree, folder)
             after == IF Len(listed) > 0 THEN cleanEachEntry(st, listed) ELSE st
             files == IF Len(listed) > 0
                      THEN SelectSeq(readdir(after.tree, folder),
                                     LAMBDA e : Basename(e) # ".DS_Store")
                      ELSE listed
             dsStore == SelectSeq(readdir(after.tree, folder),
                                  LAMBDA e : Basename(e) = ".DS_Store")
             rmCalls == [ i \in DOMAIN dsStore |-> [ call |-> "rm", path |-> dsStore[i] ] ]
         IN  IF Len(files) = 0
             THEN [ tree |-> [ files |-> [ f \in FileUniverse |->
                                             IF f \in Range(dsStore) THEN 0
                                             ELSE after.tree.files[f] ],
                               dirs |-> after.tree.dirs \ { folder } ],
                    removed |-> after.removed \cup Range(dsStore) \cup { folder },
                    ops |-> after.ops \o rmCalls
                                      \o << [ call |-> "rmdir", path |-> folder ] >> ]
             ELSE after

\* The removals still ahead of the pruner on the output tree as it is now:
\* it works depth first with one await after the other, so what it has
\* removed so far does not change what it removes next.
removalsAhead ==
    IF Root \in pruned THEN <<>>
    ELSE cleanEmptyFoldersRecursively(
             [ tree |-> output, removed |-> {}, ops |-> <<>> ], Root).ops

\* if (cleanEmpty) await cleanEmptyFoldersRecursively(outputDirectory), up
\* to the end of its next fs.rm or fs.rmdir, or to its return. Any call it
\* awaits on the way (stat, readdir, rm, rmdir) may fail: the call rejects
\* and what was removed before stays removed. Nothing else removes a folder
\* meanwhile, so rmdir never fails with ENOENT, the one error it tolerates.
LegacyCleanEmpty ==
    /\ pc = "cleaned" /\ settled = "pending"
    /\ IF options.cleanEmpty
       THEN \E fsFails \in BOOLEAN :
              IF fsFails
              THEN /\ Reject("prune")
                   /\ fsFailed' = TRUE
                   /\ UNCHANGED << output, mtime, pruned >>
              ELSE LET ahead == removalsAhead
                       next == Head(ahead)
                   IN  IF ahead = <<>>
                       THEN /\ pc' = "done"
                            /\ settled' = "resolved"
                            /\ UNCHANGED << output, mtime, pruned, failure, fsFailed >>
                       ELSE /\ output' = IF next.call = "rm"
                                         THEN [output EXCEPT !.files[next.path] = 0]
                                         ELSE [output EXCEPT !.dirs = @ \ { next.path }]
                            /\ mtime' = IF next.call = "rm"
                                        THEN [mtime EXCEPT !.output[next.path] = 0]
                                        ELSE mtime
                            /\ pruned' = pruned \cup { next.path }
                            /\ pc' = IF next.path = Root THEN "done" ELSE pc
                            /\ settled' = IF next.path = Root THEN "resolved" ELSE settled
                            /\ UNCHANGED << failure, fsFailed >>
       ELSE /\ pc' = "done"
            /\ settled' = "resolved"
            /\ UNCHANGED << output, mtime, pruned, failure, fsFailed >>
    /\ UNCHANGED << inputFiles, outputFiles, cmp, copyTask, written, removed >>
    /\ UNCHANGED << rmTask, legacyUnused >>

NextLegacy ==
    \/ LegacySearch
    \/ \E f \in FileUniverse : LegacyCompare(f)
    \/ LegacyStartCopies
    \/ \E f \in FileUniverse : LegacyMkdir(f)
    \/ \E f \in FileUniverse : LegacyCopy(f)
    \/ LegacyAwaitCopy
    \/ LegacyCleanOutputDirectory
    \/ \E f \in FileUniverse : LegacyRm(f)
    \/ LegacyCleanEmpty

SpecLegacy == InitLegacy /\ [][NextLegacy]_vars

\* ---------------------------------------------------------------------
\* The terminal selector: createSelectorInterface(input, output, options),
\* questions asked one after the other, and keys pressed by the user.

MaxEntries == 3
MaxPerPageOption == 2
MaxQuestions == 2
MaxKeys == 4

selectorUnused ==
    << input, output, options, run, pc, settled, inputFiles, outputFiles,
       cmp, copyTask, rmTask, dirState, entries, rmPending, pruneOptions,
       written, removed, pruned, failure, fsFailed, initialTree,
       searchOptions, filterCalls, progress, variant, mtime, stdout >>

InitSelector ==
    /\ input = EmptyTree
    /\ output = EmptyTree
    /\ options = defaultOptions
    /\ run = 1
    /\ pc = "selector"
    /\ settled = "pending"
    /\ inputFiles = <<>>
    /\ outputFiles = <<>>
    /\ cmp = NoTasks
    /\ copyTask = NoTasks
    /\ rmTask = NoTasks
    /\ pruneOptions = cleanDefaultOptions
    /\ dirState = NoDirs
    /\ entries = NoEntries
    /\ rmPending = NoPending
    /\ written = {}
    /\ removed = {}
    /\ pruned = {}
    /\ failure = "none"
    /\ fsFailed = FALSE
    /\ initialTree = output
    /\ filterCalls = {}
    /\ variant = "current"
    /\ mtime = NoMtime
    /\ searchOptions = searchDefaultOptions
    /\ progress = NoProgress
    /\ stdout = Terminal
    /\ \E maxPerPage \in (1..MaxPerPageOption) \cup { NoSelector.maxPerPage } :
         selector = [ NoSelector EXCEPT !.maxPerPage = maxPerPage ]

\* askQuestion(prompt, listEntries) with length entries, once the previous
\* question has been answered: a new pointerPosition, pointerTo(0, 0) writes
\* the first page, and input.on("data", ...) attaches one more listener.
AskQuestion(length) ==
    /\ ~selector.exited
    /\ Len(selector.questions) < MaxQuestions
    /\ \A i \in DOMAIN selector.questions : selector.questions[i].resolved
    /\ LET number == Len(selector.questions) + 1
       IN  selector' =
             [ selector EXCEPT
                 !.questions = Append(@, [ length |-> length, page |-> 0, index |-> 0,
                                           resolved |-> FALSE, answer |-> 0 - 1,
                                           resolveCalls |-> 0 ]),
                 !.listeners = Append(@, number),
                 !.lastWriters = { number } ]
    /\ UNCHANGED selectorUnused

\* The user presses a key while the stream flows: "data" is emitted.
KeyPress(key) ==
    /\ ~selector.exited /\ ~selector.paused
    /\ selector.listeners # <<>>
    /\ selector.keys < MaxKeys
    /\ selector' = emit([ selector EXCEPT !.keys = @ + 1, !.lastWriters = {} ],
                        selector.listeners, key)
    /\ UNCHANGED selectorUnused

\* Ctrl-C (\u0003): the first listener calls process.exit().
KeyInterrupt ==
    /\ ~selector.exited /\ ~selector.paused
    /\ selector.listeners # <<>>
    /\ selector' = [ selector EXCEPT !.exited = TRUE ]
    /\ UNCHANGED selectorUnused

\* close() of the interface (closeInterface): input.pause(). The stream
\* stops emitting "data", whether or not a question is pending; nothing
\* resumes it afterwards (input.on("data") does not resume a paused stream).
Close ==
    /\ ~selector.exited /\ ~selector.paused
    /\ selector' = [ selector EXCEPT !.paused = TRUE ]
    /\ UNCHANGED selectorUnused

NextSelector ==
    \/ \E length \in 1..MaxEntries : AskQuestion(length)
    \/ \E key \in MoveKeys \cup OtherKeys : KeyPress(key)
    \/ KeyInterrupt
    \/ Close

SpecSelector == InitSelector /\ [][NextSelector]_vars

\* ---------------------------------------------------------------------
\* Properties
\* ---------------------------------------------------------------------
FilesOf(tree) == { f \in FileUniverse : tree.files[f] > 0 }
CopyPhaseOver == pc \in { "copied", "cleaning", "cleaned", "pruning", "done" }
CleanPhaseOver == pc \in { "cleaned", "pruning", "done" }
shouldBeCopied(p) == p \notin Range(outputFiles) \/ cmp[p] = "diff"

\* C1: every path of the filtered input enumeration is written to the output
\* tree iff it is absent from the filtered output enumeration or the
\* comparator returned false for it; a path that is present and for which the
\* comparator returned true is never written.
C1_CopiedIffAbsentOrDifferent ==
    \A p \in Range(inputFiles) :
        /\ p \in written => shouldBeCopied(p)
        /\ (p \in Range(outputFiles) /\ cmp[p] = "same") => p \notin written
        /\ CopyPhaseOver => (shouldBeCopied(p) => p \in written)

C1_Witness ==
    /\ pc = "copied"
    /\ \E p, q, r \in Range(inputFiles) :
         /\ p \in Range(outputFiles) /\ cmp[p] = "diff" /\ p \in written
         /\ q \in Range(outputFiles) /\ cmp[q] = "same" /\ q \notin written
         /\ r \notin Range(outputFiles) /\ r \in written

\* C2 (as claimed): with default options and no filesystem failure, a second
\* syncDirectories call on the same trees has no copy task.
C2_SecondRunCopiesNothing ==
    (run >= 2 /\ options = defaultOptions /\ ~fsFailed /\ CopyPhaseOver)
        => copyTask = NoTasks

\* C3 (as claimed): with default options and no filesystem failure, when the
\* call has completed the output tree holds exactly the input tree's file
\* paths.
C3_SetConvergence ==
    (pc = "done" /\ options = defaultOptions /\ ~fsFailed)
        => FilesOf(output) = FilesOf(input)

\* C4 (as claimed): when the comparator throws for one file, the call does
\* not reject and, once it completes, that file has been copied.
C4_ComparatorThrowTolerated ==
    \A p \in FileUniverse :
        cmp[p] = "threw" =>
            /\ settled # "rejected"
            /\ settled = "resolved" => p \in written

\* C5 (as claimed): when the copy of one file fails, the call does not
\* reject: it goes on to the stale-cleanup and pruning phases.
C5_CopyFailureSkipped ==
    (\E p \in FileUniverse : copyTask[p] = "failed") => settled # "rejected"

\* C6 (as claimed): when the deletion of one stale path fails, the call does
\* not reject: the pruning phase still runs and the call completes.
C6_DeleteFailureCaught ==
    (\E p \in FileUniverse : rmTask[p] = "failed") => settled # "rejected"

\* C7 (as claimed): when cleanEmptyFolders fails to remove one empty
\* directory or one of its marker files, the call still completes without
\* error.
C7_PruneFailureTolerated ==
    (\E d \in AllDirs : dirState[d] \in { "rmFailed", "rmdirFailed" })
        => settled # "rejected"

\* C8: when listing a directory fails during either enumeration, the call
\* rejects and nothing has been copied, deleted or pruned in the output tree.
C8_EnumerationFailureIsFatal ==
    failure = "enumerate" =>
        /\ settled = "rejected"
        /\ written = {} /\ removed = {} /\ pruned = {}
        /\ copyTask = NoTasks /\ rmTask = NoTasks /\ dirState = NoDirs

C8_Witness ==
    /\ failure = "enumerate" /\ settled = "rejected"
    /\ inputFiles # <<>>
    /\ FilesOf(output) # {}

\* C9: with cleanDirectory set and no deletion failure, the stale-cleanup
\* phase deletes exactly the paths of the filtered output enumeration that
\* are not in the filtered input enumeration.
C9_StaleSetDeleted ==
    /\ removed \subseteq (Range(outputFiles) \ Range(inputFiles))
    /\ (CleanPhaseOver /\ options.cleanDirectory)
          => removed = Range(outputFiles) \ Range(inputFiles)

C9_Witness ==
    /\ pc = "cleaned" /\ options.cleanDirectory
    /\ removed # {}
    /\ (Range(outputFiles) \cap Range(inputFiles)) # {}

\* C10 (as claimed): stale cleanup only deletes output paths that are absent
\* from the unfiltered input tree.
C10_DeletesOnlyAbsentFromUnfilteredInput ==
    \A p \in removed : ~IsFile(input, p)

\* C10 (amended): stale cleanup only deletes output paths that are absent
\* from the filtered input enumeration; a path that exists in the input tree
\* but is rejected by filterInput is deleted when the filtered output
\* enumeration holds it.
C10_DeletesOnlyAbsentFromFilteredInput ==
    /\ \A p \in removed : p \notin Range(inputFiles)
    /\ (CleanPhaseOver /\ options.cleanDirectory) =>
          \A p \in Range(outputFiles) :
              (IsFile(input, p) /\ options.filterInput.fn
                 /\ ~applyFilter(options.filterInput, p)) => p \in removed

C10_Witness ==
    /\ CleanPhaseOver
    /\ \E p \in removed : IsFile(input, p)

\* -------------------------------------------------- cleanEmptyFolders
isHidden(e) == e \in FileUniverse /\ Basename(e) \in HIDDEN_FILES_SET
hasOtherFile(tree, d) ==
    \E f \in FilesOf(tree) : d \in AncestorDirs(f) /\ ~isHidden(f)
hasSubdirectory(tree, d) == \E c \in tree.dirs : Dirname(c) = d
\* The handler of d has passed the test of line 87 and has gone on to remove
\* d: the fs.rm calls and the fs.rmdir are under way, have succeeded or have
\* failed.  It says nothing about whether d is gone.
removalStarted(d) == dirState[d] \in { "rmdir", "removed", "rmFailed", "rmdirFailed" }
\* fs.rmdir(d) has succeeded and the handler has returned true.
isRemoved(d) == dirState[d] = "removed" /\ d \in pruned /\ d \notin output.dirs
\* Neither d nor a directory above it is rejected by the filter.
isAccepted(d) ==
    /\ ~(pruneOptions.filter.fn /\ ~applyFilter(pruneOptions.filter, d))
    /\ \A a \in AncestorDirs(d) :
          ~(pruneOptions.filter.fn /\ ~applyFilter(pruneOptions.filter, a))
filesIn(tree, d) == { f \in FileUniverse : IsFile(tree, f) /\ Dirname(f) = d }
isListed(d) == dirState[d] \notin { "none", "skipped", "readdir", "readdirFailed" }
isRejected(d) == pruneOptions.filter.fn /\ ~applyFilter(pruneOptions.filter, d)

\* C11: cleanEmptyFolders never removes the directory it was called on
\* (depth 0), whatever the tree and the options, even when nothing remains in
\* it.
C11_RootNeverRemoved ==
    /\ ~removalStarted(Root)
    /\ rmPending[Root] = {}
    /\ Root \notin pruned

C11_Witness ==
    /\ pc = "done"
    /\ dirState[Root] = "retained"
    /\ initialTree.dirs # {}
    /\ readdir(output, Root) = <<>>

\* C12: a directory is removed only after the call of every child directory
\* has returned, and only if each entry read in it is a child directory
\* removed in this run or (deleteHiddenFiles set) a hidden marker file.  While
\* a child directory is not removed (its call is still running beside its
\* siblings', or has kept it, skipped it or failed) the removal of the parent
\* is not started; a removed directory holds no file and no subdirectory.
C12_RemovedOnlyWhenEmptied ==
    /\ \A d \in AllDirs : removalStarted(d) =>
          \A e \in Range(entries[d]) :
              \/ e \in AllDirs /\ isRemoved(e)
              \/ isHidden(e) /\ pruneOptions.deleteHiddenFiles
    /\ \A c \in initialTree.dirs : ~isRemoved(c) =>
          /\ ~removalStarted(Dirname(c))
          /\ Dirname(c) \notin pruned
          /\ Dirname(c) # Root => Dirname(c) \in output.dirs
    /\ \A d \in pruned \cap AllDirs :
          /\ \A f \in FilesOf(output) : d \notin AncestorDirs(f)
          /\ \A c \in output.dirs : d \notin AncestorDirs(c)

\* d is removed after its two child directories, whose calls ran side by
\* side, have both been removed, while the call of d's sibling g is still
\* waiting for its listing.
C12_Witness ==
    /\ pc = "pruning"
    /\ entries[<<"d">>] = << <<"d", "e">>, <<"d", "f">> >>
    /\ isRemoved(<<"d", "e">>) /\ isRemoved(<<"d", "f">>)
    /\ <<"d", "e", ".DS_Store">> \in pruned
    /\ isRemoved(<<"d">>)
    /\ dirState[<<"g">>] = "readdir"

\* C13: with the default options, when the call has returned, every non-root
\* directory whose subtree held no file other than marker files has been
\* removed (also one that held only subdirectories), and every directory
\* whose subtree held another file is still there.
C13_EmptySubtreesRemoved ==
    (pc = "done" /\ pruneOptions = cleanDefaultOptions) =>
        \A d \in initialTree.dirs :
            /\ d \notin output.dirs <=> ~hasOtherFile(initialTree, d)
            /\ d \in pruned <=> d \notin output.dirs

C13_Witness ==
    /\ pc = "done" /\ pruneOptions = cleanDefaultOptions
    /\ initialTree.dirs = { <<"d">>, <<"d", "e">> }
    /\ initialTree.files[<<"d", "b">>] = 0
    /\ output.dirs = {}

\* C14: a non-root directory rejected by the filter is never removed, and
\* neither is its parent.
C14_RejectedDirectoryProtected ==
    \A d \in initialTree.dirs : isRejected(d) =>
        /\ d \in output.dirs /\ d \notin pruned /\ ~removalStarted(d)
        /\ Dirname(d) \notin pruned /\ ~removalStarted(Dirname(d))
        /\ Dirname(d) # Root => Dirname(d) \in output.dirs

C14_Witness ==
    /\ pc = "done"
    /\ isRejected(<<"d", "e">>)
    /\ entries[<<"d">>] = << <<"d", "e">> >>
    /\ dirState[<<"d">>] = "retained"
    /\ FilesOf(initialTree) \subseteq { <<"a">> }

\* C15 (as claimed): with maxDepth = k > 0 no directory deeper than k is
\* listed or removed, and a directory at depth k, where recursion stops, is
\* never removed.
C15_DepthLimitDirectoryNeverRemoved ==
    pruneOptions.maxDepth > 0 =>
        \A d \in initialTree.dirs :
            /\ Len(d) > pruneOptions.maxDepth =>
                  ~isListed(d) /\ d \in output.dirs /\ d \notin pruned
            /\ Len(d) = pruneOptions.maxDepth =>
                  d \in output.dirs /\ d \notin pruned

\* C15 (amended): with maxDepth = k > 0 no directory deeper than k is listed
\* or removed, and a directory at depth k that has a subdirectory is never
\* removed.  A directory at depth k is itself within the limit: when neither
\* it nor a directory above it is rejected by the filter it is listed, and
\* when the call has returned it has been removed exactly if it had no
\* subdirectory and held no file or, deleteHiddenFiles set, only marker
\* files.  With maxDepth = 0 every directory that the filter lets the
\* recursion reach is listed, whatever its depth.
C15_DepthLimit ==
    /\ pruneOptions.maxDepth > 0 =>
        \A d \in initialTree.dirs :
            /\ Len(d) > pruneOptions.maxDepth =>
                  /\ ~isListed(d) /\ entries[d] = <<>>
                  /\ d \in output.dirs /\ d \notin pruned
            /\ (Len(d) = pruneOptions.maxDepth /\ hasSubdirectory(initialTree, d)) =>
                  d \in output.dirs /\ d \notin pruned /\ ~removalStarted(d)
            /\ (Len(d) = pruneOptions.maxDepth /\ isAccepted(d)) =>
                  /\ dirState[d] # "skipped"
                  /\ pc = "done" =>
                        /\ isListed(d)
                        /\ isRemoved(d) <=>
                              /\ ~hasSubdirectory(initialTree, d)
                              /\ \A f \in filesIn(initialTree, d) :
                                    isHidden(f) /\ pruneOptions.deleteHiddenFiles
                        /\ isRemoved(d) \/ (d \in output.dirs /\ d \notin pruned)
    /\ (pruneOptions.maxDepth = 0 /\ pc = "done") =>
        \A d \in initialTree.dirs : isAccepted(d) => isListed(d)

\* maxDepth = 1: d (depth 1) is kept because its subdirectory d/e was
\* skipped, and g (depth 1, empty) has been listed and removed.
C15_Witness ==
    /\ pc = "done"
    /\ pruneOptions.maxDepth = 1
    /\ initialTree.dirs = { <<"d">>, <<"d", "e">>, <<"g">> }
    /\ FilesOf(initialTree) = {}
    /\ dirState[<<"d">>] = "retained"
    /\ dirState[<<"d", "e">>] = "skipped"
    /\ isListed(<<"g">>) /\ isRemoved(<<"g">>)

\* C16: a non-root directory whose only remaining entries are hidden marker
\* files is removed together with them when deleteHiddenFiles is set; when it
\* is not set the directory is kept and its marker files are untouched.
onlyMarkersRemain(d) ==
    /\ d # Root
    /\ isListed(d) /\ dirState[d] # "children"
    /\ remainingFiles(d) # <<>>
    /\ \A e \in Range(remainingFiles(d)) : isHidden(e)

C16_HiddenFilePolicy ==
    \A d \in AllDirs : onlyMarkersRemain(d) =>
        IF pruneOptions.deleteHiddenFiles
        THEN /\ removalStarted(d)
             /\ pc = "done" =>
                  /\ d \in pruned /\ d \notin output.dirs
                  /\ \A e \in Range(remainingFiles(d)) :
                        e \in pruned /\ ~IsFile(output, e)
        ELSE /\ dirState[d] = "retained"
             /\ d \in output.dirs /\ d \notin pruned
             /\ \A e \in Range(remainingFiles(d)) :
                   e \notin pruned /\ output.files[e] = initialTree.files[e]

C16_Witness ==
    /\ pc = "done"
    /\ pruneOptions.deleteHiddenFiles
    /\ onlyMarkersRemain(<<"d", "e">>)
    /\ <<"d", "e">> \in pruned
    /\ <<"d", "e", ".DS_Store">> \in pruned

\* ---------------------------------------------------------------------
\* Phase barriers and progress reporting of syncDirectories

enumerationsCompleted == pc \notin { "searchInput", "searchOutput" }
comparatorStarted == cmp # NoTasks
copyStarted == copyTask # NoTasks
deletionStarted == rmTask # NoTasks
pruningStarted == dirState # NoDirs
comparatorsSettled == \A f \in FileUniverse : cmp[f] # "pending"
copiesSettled == \A f \in FileUniverse : copyTask[f] \notin { "mkdir", "copyFile" }
deletionsSettled == \A f \in FileUniverse : rmTask[f] # "rm"

\* C17: in syncDirectories no comparator call starts before both
\* enumerations have completed, no copy starts before every comparator call
\* has settled, no stale deletion starts before every copy has settled, and
\* pruning starts only after every stale deletion has settled.
C17_PhaseBarriers ==
    /\ comparatorStarted => enumerationsCompleted
    /\ copyStarted => comparatorsSettled
    /\ deletionStarted => copiesSettled
    /\ pruningStarted => deletionsSettled /\ copiesSettled /\ comparatorsSettled

\* All four phases have run: two files were compared and copied, a stale
\* file was deleted and the pruner is at work.
C17_Witness ==
    /\ pruningStarted
    /\ Cardinality({ f \in FileUniverse : copyTask[f] = "done" }) >= 2
    /\ \E f \in FileUniverse : rmTask[f] = "done"

reportedLabels == { progress.reports[i].label : i \in DOMAIN progress.reports }
completedLabels == { Basename(f) : f \in { g \in FileUniverse : copyTask[g] = "done" } }
increasingCounts ==
    \A i, j \in DOMAIN progress.reports :
        i < j => progress.reports[i].completedCount < progress.reports[j].completedCount

\* C18: with progress reporting enabled the reporter is invoked at most
\* once per completed copy task, never for a task that has not completed,
\* with strictly increasing completedCount values that never exceed
\* totalCount, whatever the completion order of the copies.
C18_ReporterOrder ==
    options.logProgress =>
        /\ Cardinality(reportedLabels) = Len(progress.reports)
        /\ reportedLabels \subseteq completedLabels
        /\ Len(progress.reports) <= Cardinality(completedLabels)
        /\ increasingCounts
        /\ \A i \in DOMAIN progress.reports :
              /\ progress.reports[i].completedCount >= 1
              /\ progress.reports[i].completedCount <= progress.reports[i].totalCount
              /\ progress.reports[i].totalCount = itemsLength

\* Three copies completed, the one under d first; all were counted and the
\* reporter was called for two of them.
C18_Witness ==
    /\ options.logProgress
    /\ itemsLength = 3
    /\ Len(progress.reports) = 2
    /\ progress.reports[1].label = "b"
    /\ progress.currentIndex = 3

allCopiesSucceeded ==
    /\ options.logProgress
    /\ copyStarted
    /\ progress.currentIndex = itemsLength
    /\ \A f \in FileUniverse : copyTask[f] \in { "none", "done" }

\* C19 (as stated): for N copy tasks that all succeed the reporter is
\* invoked exactly N times, once with each completedCount from 1 to N.
C19_ReportedAfterEachCopy ==
    allCopiesSucceeded =>
        /\ Len(progress.reports) = itemsLength
        /\ \A i \in DOMAIN progress.reports : progress.reports[i].completedCount = i

\* C19 (amended): the reporter is invoked after a copy completes only for
\* the last of the N tasks or when more than throttleRate ms have passed
\* since the previous invocation; for N copies that all succeed it is
\* invoked at least once and at most N times, with strictly increasing
\* completedCount values that start at 1 and end at N.
C19_ReportedWhenFinalOrNotThrottled ==
    /\ options.logProgress =>
          \A i \in DOMAIN progress.reports :
              i > 1 => \/ progress.reports[i].completedCount = itemsLength
                       \/ progress.reports[i].at - progress.reports[i - 1].at > throttleRate
    /\ allCopiesSucceeded =>
          /\ Len(progress.reports) >= 1
          /\ Len(progress.reports) <= itemsLength
          /\ increasingCounts
          /\ progress.reports[1].completedCount = 1
          /\ progress.reports[Len(progress.reports)].completedCount = itemsLength

\* Three copies succeeded within throttleRate ms: the reporter was called
\* for the first and for the last only.
C19_Witness ==
    /\ allCopiesSucceeded
    /\ itemsLength = 3
    /\ Len(progress.reports) = 2
    /\ progress.reports[1].at = progress.reports[2].at

\* ---------------------------------------------------------------------
\* searchFilesRecursive

\* The entries under the root that a search may return, and those of them the
\* filter accepts.
candidates(tree, includeDirectories) ==
    { f \in FileUniverse : IsFile(tree, f) }
        \cup (IF includeDirectories THEN tree.dirs ELSE {})
accepted(filter, paths) ==
    IF filter.fn THEN { p \in paths : applyFilter(filter, p) } ELSE paths

\* C20: searchFilesRecursive returns exactly the root-relative paths of the
\* non-directory entries under the root (plus the directories when
\* includeDirectories is set) that the filter accepts, each exactly once; a
\* file under a directory the filter rejects is still returned when its own
\* path is accepted.
C20_SearchReturnsAcceptedEntries ==
    pc = "searched" /\ ~searchOptions.fullPath =>
        /\ Range(outputFiles)
             = accepted(searchOptions.filter,
                        candidates(output, searchOptions.includeDirectories))
        /\ Len(outputFiles) = Cardinality(Range(outputFiles))

\* The filter rejects d and d/b is returned, along with the directory d/e.
C20_Witness ==
    /\ pc = "searched"
    /\ ~searchOptions.fullPath
    /\ ~applyFilter(searchOptions.filter, <<"d">>)
    /\ <<"d", "b">> \in Range(outputFiles)
    /\ <<"d", "e">> \in Range(outputFiles)
    /\ <<"d">> \notin Range(outputFiles)

\* C21: every invocation of the filter by searchFilesRecursive receives a
\* path relative to the original root, at every recursion level and also
\* when fullPath is set; with fullPath set the result is the absolute form
\* of exactly the paths returned without fullPath.
C21_FilterGetsRelativePaths ==
    pc = "searched" =>
        /\ \A p \in filterCalls : ~isAbsolute(p)
        /\ searchOptions.fullPath =>
              LET relative == searchFilesRecursive(
                                  output, Root, [searchOptions EXCEPT !.fullPath = FALSE])
              IN  outputFiles = [ i \in 1..Len(relative) |-> resolve(relative[i]) ]

\* ---------------------------------------------------------------------
\* Options of syncDirectories

nonCallableOptionSupplied ==
    \/ ~options.filterInput.fn
    \/ ~options.filterOutput.fn
    \/ options.compare = "notCallable"

\* C22 (as claimed): a non-callable filterInput, filterOutput or compare is
\* treated as the default: the run does not fail because of it.
C22_NonCallableOptionIsDefault ==
    nonCallableOptionSupplied /\ options.compare # "custom" /\ ~fsFailed
        => settled # "rejected"

\* C23: the default comparator returns false, so that the file is copied,
\* whenever the output file is missing or a stat call on either file fails;
\* it never throws or rejects.
C23_DefaultComparatorNeverThrows ==
    \A f \in FileUniverse :
        /\ options.compare = "filesAreSame" => cmp[f] # "threw"
        /\ options.compare = "filesAreSame" /\ cmp[f] \in { "same", "diff" }
              /\ (~existsSync(output, f) \/ ~IsFile(input, f) \/ fsFailed)
              => cmp[f] = "diff" /\ needsCopy(cmp[f])
        /\ settled = "pending" /\ failure = "none"

\* The comparator was called for a path whose output file is missing and
\* answered false.
C23_Witness ==
    \E f \in FileUniverse :
        /\ IsFile(input, f)
        /\ ~existsSync(output, f)
        /\ cmp[f] = "diff"

\* C24: with cleanDirectory = false and cleanEmpty = false the call never
\* deletes a file or a directory of the output tree, and every output file
\* whose path is not copied in the run is left unchanged.
C24_NoCleanupNoDeletion ==
    ~options.cleanDirectory /\ ~options.cleanEmpty =>
        /\ removed = {} /\ pruned = {}
        /\ initialTree.dirs \subseteq output.dirs
        /\ \A f \in FileUniverse :
              IsFile(initialTree, f) =>
                  /\ IsFile(output, f)
                  /\ f \notin written => output.files[f] = initialTree.files[f]

\* The call is done with both options off: a stale file is still there and
\* another file was copied.
C24_Witness ==
    /\ ~options.cleanDirectory /\ ~options.cleanEmpty
    /\ pc = "done"
    /\ written # {}
    /\ \E f \in FileUniverse :
          IsFile(output, f) /\ ~IsFile(input, f) /\ f \in Range(outputFiles)

comparatorInvoked(f) == cmp[f] \in { "pending", "same", "diff", "threw" }

\* C25: the comparator is invoked only for paths present in both the
\* filtered input enumeration and the filtered output enumeration, at most
\* once per path, and never for a path absent from the output set.
C25_ComparatorOnlyForCommonPaths ==
    /\ [](/\ \A f \in FileUniverse :
               comparatorInvoked(f) =>
                   f \in Range(inputFiles) /\ f \in Range(outputFiles)
          /\ cmp # NoTasks => Len(inputFiles) = Cardinality(Range(inputFiles)))
    /\ [][\A f \in FileUniverse :
             cmp[f] \in { "absent", "same", "diff", "threw" } => cmp'[f] # "pending"]_vars

\* One path was compared and another, absent from the output set, was
\* scheduled without a comparator call.
C25_Witness ==
    /\ \E f \in FileUniverse : cmp[f] \in { "same", "diff" }
    /\ \E f \in FileUniverse : cmp[f] = "absent" /\ IsFile(output, f)

holdsAFile(tree, d) == \E f \in FileUniverse : IsFile(tree, f) /\ d \in AncestorDirs(f)

\* C26: after the call completes with default options and no filesystem
\* failure, the output tree has no directory other than the root whose
\* subtree holds no file; a directory whose files were all deleted as stale
\* in the run is removed in the same run.
C26_NoEmptyDirectoryLeft ==
    (pc = "done" /\ options = defaultOptions /\ ~fsFailed) =>
        \A d \in output.dirs : holdsAFile(output, d)

\* The files of d were all stale: they were deleted and d was removed in the
\* same call.
C26_Witness ==
    /\ pc = "done" /\ options = defaultOptions /\ ~fsFailed
    /\ <<"d", "b">> \in removed
    /\ <<"d">> \in initialTree.dirs
    /\ <<"d">> \notin output.dirs
    /\ run = 1

\* C27: in every interleaving of the concurrent copy tasks the destination
\* directory of a task exists when its file copy is issued, so that two
\* tasks whose destinations share a directory that does not exist yet both
\* succeed.
C27_DestinationDirectoryExists ==
    \A f \in FileUniverse :
        copyTask[f] = "copyFile" =>
            /\ existsSync(output, Dirname(f))
            /\ AncestorDirs(f) \subseteq output.dirs
            /\ IsFile(input, f)

\* d did not exist in the output tree; the copies of d/b and of
\* d/e/.DS_Store each created what they needed and both succeeded.
C27_Witness ==
    /\ <<"d">> \notin initialTree.dirs
    /\ copyTask[<<"d", "b">>] = "done"
    /\ copyTask[<<"d", "e", ".DS_Store">>] = "done"
    /\ { <<"d", "b">>, <<"d", "e", ".DS_Store">> } \subseteq written


\* The copy phase of an older variant is over.
legacyCopyPhaseOver == pc \in { "copied", "cleaned", "done" }

\* compare() reported that the two files differ: false from filesAreSame
\* (part_003), true from fileStatsAreDifferent (sort-by-frequency.js).
reportedNonEquivalent(f) ==
    IF variant = "sort-by-frequency" THEN cmp[f] = "true" ELSE cmp[f] = "false"

\* C28: in part_003 and sort-by-frequency.js, a file present in both trees
\* for which the comparator reports non-equivalence has been copied when the
\* copy phase is over.
C28_NonEquivalentFileIsCopied ==
    variant \in { "part_003", "sort-by-frequency" } /\ legacyCopyPhaseOver =>
        \A f \in Range(inputFiles) \cap Range(outputFiles) :
            reportedNonEquivalent(f) => f \in written

\* The two files of path f exist, untouched by this run, with the same size
\* and the same modification time.
sameSizeAndMtime(f) ==
    /\ IsFile(input, f) /\ IsFile(output, f)
    /\ f \notin written \cup removed
    /\ input.files[f] = output.files[f]
    /\ mtime.input[f] = mtime.output[f]

\* C29: in sync-directories.js and part_003, the default comparator returns
\* true for two existing files of the same size and modification time (no
\* stat failed), and the file is not copied again.
C29_SameSizeAndMtimeNotCopied ==
    /\ variant \in { "sync-directories", "part_003" }
    /\ options.compare = "default"
    /\ ~fsFailed
    => \A f \in Range(inputFiles) :
           sameSizeAndMtime(f) /\ cmp[f] \in { "true", "false" } =>
               cmp[f] = "true" /\ copyTask[f] = "none"

\* C30: cleanEmptyFoldersRecursively never removes the folder passed to it
\* (here the output directory), even when it is or becomes empty.
C30_ArgumentFolderNeverRemoved ==
    variant \in LegacyVariants => Root \notin pruned


\* ---------------------------------------------------------------------
\* Settlement and frame of syncDirectories

\* A filesystem operation started by the call has not completed yet.
operationInFlight ==
    \/ \E f \in FileUniverse :
         \/ cmp[f] = "pending"
         \/ copyTask[f] \in { "mkdir", "copyFile" }
         \/ rmTask[f] = "rm"
    \/ \E d \in AllDirs :
         dirState[d] \in { "readdir", "rmdir" } \/ rmPending[d] # {}

\* C31: when the promise returned by syncDirectories has settled, resolved or
\* rejected, no comparison, copy, deletion or pruning operation started by
\* the call is still in flight.
C31_NothingInFlightWhenSettled ==
    settled # "pending" => ~operationInFlight


\* C32: no step of syncDirectories creates, modifies or deletes a file or a
\* directory of the input tree, whatever the options and the interleaving of
\* the comparison, copy, deletion and pruning tasks.
C32_InputTreeUntouched == [][input' = input]_vars

C32_Witness ==
    /\ pc = "done"
    /\ written # {} /\ removed # {} /\ pruned # {}
    /\ \E f \in written : initialTree.files[f] # 0


\* ---------------------------------------------------------------------
\* Frame of cleanEmptyFolders

\* The file f of the initial tree is gone or has been given to fs.rm.
fileDeleted(f) ==
    \/ f \in pruned
    \/ IsFile(initialTree, f) /\ ~IsFile(output, f)
    \/ \E d \in AllDirs : f \in rmPending[d]

\* C33 (as claimed): cleanEmptyFolders deletes a file only if it is a hidden
\* marker file, deleteHiddenFiles is set and the directory that contains it is
\* removed in the same call: its removal is under way while the handler runs
\* and it is gone once the handler has ended.  No file with another name and
\* no marker file of a directory that stays is ever deleted.
C33_OnlyMarkersOfRemovedDirectoriesDeleted ==
    /\ \A f \in FileUniverse : fileDeleted(f) =>
          /\ isHidden(f)
          /\ pruneOptions.deleteHiddenFiles
          /\ dirState[Dirname(f)] = "rmdir" \/ isRemoved(Dirname(f))
    /\ \A f \in FileUniverse :
          \/ ~isHidden(f)
          \/ (Dirname(f) \in output.dirs /\ dirState[Dirname(f)] # "rmdir")
          => output.files[f] = initialTree.files[f]

\* ---------------------------------------------------------------------
\* Protection by filterOutput

rejectedByFilterOutput(f) ==
    options.filterOutput.fn /\ ~applyFilter(options.filterOutput, f)

\* C34: an output file whose relative path filterOutput rejects is deleted by
\* no phase of a syncDirectories run, neither by the deletion of stale files
\* nor by the pruning of empty directories.
C34_RejectedOutputFileNeverDeleted ==
    \A f \in FileUniverse :
        rejectedByFilterOutput(f) /\ IsFile(initialTree, f) =>
            /\ f \notin removed
            /\ f \notin pruned
            /\ IsFile(output, f)


\* C35: in cleanEmptyFolders no directory below a directory the filter
\* rejects is listed or removed, even when it is empty and the filter accepts
\* it: the rejected directory is not listed and its whole subtree stays as it
\* was.
C35_RejectedSubtreeUntouched ==
    \A d \in initialTree.dirs : isRejected(d) =>
        /\ ~isListed(d) /\ entries[d] = <<>>
        /\ \A c \in AllDirs : d \in AncestorDirs(c) =>
              /\ dirState[c] = "none" /\ entries[c] = <<>>
              /\ c \notin pruned
              /\ c \in output.dirs <=> c \in initialTree.dirs
        /\ \A f \in FileUniverse : d \in AncestorDirs(f) =>
              /\ f \notin pruned
              /\ output.files[f] = initialTree.files[f]

C35_Witness ==
    /\ pc = "done"
    /\ isRejected(<<"d">>) /\ ~isRejected(<<"d", "e">>)
    /\ initialTree.dirs = { <<"d">>, <<"d", "e">> }
    /\ FilesOf(initialTree) \subseteq { <<"a">> }
    /\ dirState[<<"d">>] = "skipped"
    /\ <<"d", "e">> \in output.dirs


\* ---------------------------------------------------------------------
\* The last report and the values of logProgress

\* The results of the promises given to logProgress, in the order of the array
filesToCopyLabels ==
    LET filesToCopy == SelectSeq(inputFiles, LAMBDA f : copyTask[f] # "none")
    IN  [ i \in 1..Len(filesToCopy) |-> Basename(filesToCopy[i]) ]

\* C36: with progress reporting enabled and all N >= 1 copies succeeded, the
\* last invocation of the reporter has completedCount = N = totalCount and
\* is the only one with that count, whatever was throttled before; the values
\* logProgress returns are in the order of the promise array, whatever the
\* order of completion.
C36_FinalReportOnceAndValuesInOrder ==
    allCopiesSucceeded /\ itemsLength >= 1 =>
        LET reports == progress.reports
        IN  /\ Len(reports) >= 1
            /\ reports[Len(reports)].completedCount = itemsLength
            /\ reports[Len(reports)].totalCount = itemsLength
            /\ Cardinality({ i \in DOMAIN reports :
                               reports[i].completedCount = itemsLength }) = 1
            /\ progress.values = filesToCopyLabels

\* Two copies, the second of the array completed first, more than
\* throttleRate ms before the first.
C36_Witness ==
    /\ allCopiesSucceeded
    /\ itemsLength = 2
    /\ Len(progress.reports) = 2
    /\ progress.reports[1].label = filesToCopyLabels[2]
    /\ progress.reports[2].label = filesToCopyLabels[1]
    /\ progress.reports[2].at > progress.reports[1].at


\* ---------------------------------------------------------------------
\* The terminal selector

\* C37: for a non-empty entry list and after any sequence of pointer moves
\* the pointer satisfies 0 <= page < pageCount and 0 <= index < number of
\* items on that page, so the index computed on Enter is a valid index into
\* the entry list.
C37_PointerInBounds ==
    \A i \in DOMAIN selector.questions :
        LET q == selector.questions[i]
        IN  /\ 0 <= q.page
            /\ q.page < pageCountOf(q.length, selector.maxPerPage)
            /\ 0 <= q.index
            /\ q.index < pageLength(q.length, selector.maxPerPage, q.page)
            /\ getCurrentIndex(q, selector.maxPerPage) \in 0..(q.length - 1)
            /\ q.resolved => q.answer \in (0 - 1)..(q.length - 1)

\* Three entries on pages of two: the pointer went to the second item, then
\* to the shorter last page, where it was clamped, and Enter chose entry 2.
C37_Witness ==
    /\ selector.maxPerPage = 2
    /\ Len(selector.questions) = 1
    /\ selector.questions[1].length = 3
    /\ selector.questions[1].page = 1
    /\ selector.questions[1].index = 0
    /\ selector.questions[1].resolved
    /\ selector.questions[1].answer = 2
    /\ selector.keys = 3

\* C38: once a question's promise has resolved, no later key press moves its
\* pointer away from the chosen entry, writes its page again or calls its
\* resolve function again: only the open question handles the keys.
C38_OnlyOpenQuestionHandlesKeys ==
    \A i \in DOMAIN selector.questions :
        LET q == selector.questions[i]
        IN  q.resolved =>
              /\ q.resolveCalls = 1
              /\ i \notin selector.lastWriters
              /\ q.answer >= 0 => getCurrentIndex(q, selector.maxPerPage) = q.answer

====
